---- MODULE Spec2Model ----
(***************************************************************************)
(* The parallel fetch engine of Argus (src/unnamed/part_001): the fetch    *)
(* workers scrape_url and check_sherlock_url, the two                      *)
(* tbb::parallel_for_each dispatches, and the three entry points           *)
(* parallel_scrape, parallel_sherlock and parallel_harvester.              *)
(*                                                                         *)
(* A std::string is a sequence of one-character strings, so that find,     *)
(* replace, concatenation and the pattern scans are computed as the code   *)
(* computes them.  Positions are 1-based; 0 stands for std::string::npos.  *)
(*                                                                         *)
(* The second half of the module is the user interface that sits on the    *)
(* engine (src/renderer.js, src/three-viewport.js and the hand tracking of *)
(* src/unnamed/part_000).  It runs on the one thread of the page: an       *)
(* action is the code that runs from an event, or from the resolution of   *)
(* an awaited promise, to the next await or the end of the handler.        *)
(***************************************************************************)
EXTENDS Integers, Sequences, FiniteSets, TLC

(***************************************************************************)
(* Bounds of the model.                                                    *)
(***************************************************************************)
\* longest URL list handed to parallel_scrape by a direct caller
MaxUrls == 3
\* longest site list handed to parallel_sherlock
MaxSites == 3
\* worker threads of the TBB arena (the hardware concurrency of the host)
NumThreads == 2

(***************************************************************************)
(* std::string operations.                                                 *)
(***************************************************************************)
\* s.substr(from-1, to-from+1), empty when the range is empty
Sub(s, from, to) ==
    IF from > to THEN <<>> ELSE SubSeq(s, from, to)

\* does p occur in s starting at position i
OccursAt(s, p, i) ==
    /\ i >= 1
    /\ i + Len(p) - 1 <= Len(s)
    /\ \A k \in 1..Len(p) : s[i + k - 1] = p[k]

\* s.find(p): the first position at which p occurs, 0 for npos
Find(s, p) ==
    LET hits == {i \in 1..(Len(s) + 1) : OccursAt(s, p, i)}
    IN  IF hits = {} THEN 0 ELSE CHOOSE i \in hits : \A j \in hits : i <= j

\* s.find(p) != std::string::npos
Contains(s, p) == Find(s, p) # 0

\* s.replace(pos-1, n, r) for a position inside s
Replace(s, pos, n, r) ==
    LET last == IF pos + n - 1 > Len(s) THEN Len(s) ELSE pos + n - 1
    IN  Sub(s, 1, pos - 1) \o r \o Sub(s, last + 1, Len(s))

(***************************************************************************)
(* String literals of the source.                                          *)
(***************************************************************************)
CURL_ERROR == <<"C", "U", "R", "L", "_", "E", "R", "R", "O", "R">>
CURL_ERROR_PREFIX == <<"C", "U", "R", "L", "_", "E", "R", "R", "O", "R", ":", " ">>
CURL_INIT_ERROR ==
    <<"C", "U", "R", "L", "_", "I", "N", "I", "T", "_", "E", "R", "R", "O", "R">>

\* curl_easy_strerror of the two transport failures the model draws
curl_easy_strerror(res) ==
    IF res = "CURLE_OPERATION_TIMEDOUT"
    THEN <<"T", "i", "m", "e", "o", "u", "t", " ", "w", "a", "s", " ",
           "r", "e", "a", "c", "h", "e", "d">>
    ELSE <<"C", "o", "u", "l", "d", "n", "'", "t", " ", "r", "e", "s", "o",
           "l", "v", "e", " ", "h", "o", "s", "t", " ", "n", "a", "m", "e">>

(***************************************************************************)
(* The transport: what libcurl can answer to one job.                      *)
(***************************************************************************)
\* CURLcode values of a failed curl_easy_perform
CurlErrors == {"CURLE_OPERATION_TIMEDOUT", "CURLE_COULDNT_RESOLVE_HOST"}

\* page bodies a server can answer with
Bodies ==
    { <<>>,
      <<"w", ".", "e", ".", "c", "o", " ", "b", "@", "e", ".", "c", "o">>,
      <<"C", "U", "R", "L", "_", "E", "R", "R", "O", "R", " ",
        "c", "@", "e", ".", "c", "o">> }

\* a page with two addresses of one domain around an address of another,
\* and with two host names
MixedPage ==
    <<"w", ".", "e", ".", "c", "o", " ", "b", "@", "e", ".", "c",
      "o", " ", "x", "@", "f", ".", "i", "o", " ", "a", "@",
      "e", ".", "c", "o", " ", "v", ".", "e", ".", "c", "o">>
\* a page with two addresses of a longer domain
ExamplePage ==
    <<"c", "o", "n", "t", "a", "c", "t", " ", "m", "e", " ", "a",
      "t", " ", "b", "o", "b", "@", "e", "x", "a", "m", "p",
      "l", "e", ".", "c", "o", "m", " ", "o", "r", " ", "a",
      "d", "m", "i", "n", "@", "e", "x", "a", "m", "p", "l",
      "e", ".", "c", "o", "m">>

\* pages a search can answer with
SearchBodies == Bodies \cup {MixedPage, ExamplePage}

\* HTTP status codes a server can answer with
HttpCodes == {200, 404}

\* no answer yet
NoResp == [handle |-> TRUE, res |-> "PENDING", body |-> <<>>, http_code |-> 0]
\* curl_easy_init returned NULL
InitFailed == [handle |-> FALSE, res |-> "NONE", body |-> <<>>, http_code |-> 0]

\* the server accepts the connection and never sends a byte
Silent == [handle |-> TRUE, res |-> "NO_ANSWER", body |-> <<>>, http_code |-> 0]
\* curl_easy_perform gave up at CURLOPT_TIMEOUT
TimedOut ==
    [handle |-> TRUE, res |-> "CURLE_OPERATION_TIMEDOUT", body |-> <<>>,
     http_code |-> 0]
\* CURLOPT_TIMEOUT, in seconds
CURLOPT_TIMEOUT == 5

\* the answers to a GET of a page among bs: a completed exchange with a
\* body, or a transport error
GetResponsesOf(bs) ==
    {[handle |-> TRUE, res |-> "CURLE_OK", body |-> b, http_code |-> 200] :
        b \in bs}
    \cup
    {[handle |-> TRUE, res |-> e, body |-> <<>>, http_code |-> 0] :
        e \in CurlErrors}

\* the answers to a GET a direct caller of parallel_scrape can meet
GetResponses == GetResponsesOf(Bodies)

\* the answers to a header-only request
HeadResponses ==
    {[handle |-> TRUE, res |-> "CURLE_OK", body |-> <<>>, http_code |-> c] :
        c \in HttpCodes}
    \cup
    {[handle |-> TRUE, res |-> e, body |-> <<>>, http_code |-> 0] :
        e \in CurlErrors}

VARIABLES
    mode,               \* the entry point the caller invoked
    urls,               \* parallel_scrape: its argument
    pc,                 \* parallel_scrape: where the call is
    jobs,               \* parallel_scrape: the concurrent_vector<ScrapeJob>
    results,            \* parallel_scrape: the map it returned to its caller
    username,           \* parallel_sherlock: its first argument
    sites_to_check,     \* parallel_sherlock: its second argument
    ppc,                \* parallel_sherlock: where the call is
    sjobs,              \* parallel_sherlock: the concurrent_vector<SherlockJob>
    found_urls,         \* parallel_sherlock: the vector it returned
    domain,             \* parallel_harvester: its argument
    hpc,                \* parallel_harvester: where the call is
    scraped_html_map,   \* parallel_harvester: the map parallel_scrape returned
    it,                 \* parallel_harvester: entries of the map already visited
    final_results,      \* parallel_harvester: the HarvesterResults
    scanned,            \* parallel_harvester: keys whose html reached the scans
    net,                \* the outcomes libcurl can have for each url
    run,                \* how often the caller has called parallel_scrape
    first_results,      \* the map the caller got from its first call
    first_harvest,      \* the HarvesterResults the caller got from its first call
    site_file,          \* sherlock_sites.json as load_sherlock_sites finds it
    handTrackingActive, \* part_000: the flag of the detection loop
    videoStream,        \* part_000: the camera stream, 0 for null
    handCalls,          \* startHandTracking calls begun so far
    handStarts,         \* startHandTracking calls that are at an await
    handStops,          \* stopHandTracking calls so far
    handPasses,         \* detectHands invocations that went past the guard
    mediaRecorder,      \* renderer.js: the current MediaRecorder, 0 for null
    recorders,          \* MediaRecorder objects created so far: their state
    isListening,        \* renderer.js: ARGUS.isListening
    voiceStarts,        \* startVoiceInput calls that await the microphone
    voiceHeld,          \* the voice button is held down
    argusBackend,       \* window.argusBackend: the socket, if there is one
    messageQueue,       \* window.messageQueue: the queue, if there is one
    sentMessages,       \* what went out on the socket
    commands,           \* the texts given to sendMessage so far
    panels,             \* ARGUS.panels with the element of each panel
    taskbar,            \* the taskbar element: its display and its items
    dragState,          \* ARGUS.dragState, <<>> for null
    now,                \* Date.now()
    lastGestureTime,    \* part_000: the time of the last gesture acted on
    performed,          \* the gestures whose action was performed
    viewportActive,     \* three-viewport.js: the flag of the render loop
    animationFrames,    \* animate3D callbacks the browser has scheduled
    viewerCalls         \* initialize3DViewer calls so far

scrapeVars == <<urls, pc, jobs, results>>
probeVars == <<username, sites_to_check, ppc, sjobs, found_urls>>
harvestVars == <<domain, hpc, scraped_html_map, it, final_results, scanned>>
handVars == <<handTrackingActive, videoStream, handCalls, handStarts,
              handStops, handPasses>>
voiceVars == <<mediaRecorder, recorders, isListening, voiceStarts, voiceHeld>>
chatVars == <<argusBackend, messageQueue, sentMessages, commands>>
panelVars == <<panels, taskbar, dragState>>
gestureVars == <<now, lastGestureTime, performed>>
viewerVars == <<viewportActive, animationFrames, viewerCalls>>
uiVars == <<handVars, voiceVars, chatVars, panelVars, gestureVars, viewerVars>>
callVars == <<mode, net, run, first_results, first_harvest, site_file, uiVars>>
vars == <<callVars, scrapeVars, probeVars, harvestVars>>
engineVars == <<mode, net, run, first_results, first_harvest, site_file,
                scrapeVars, probeVars, harvestVars>>

(***************************************************************************)
(* Maps (std::map<std::string, std::string>).                              *)
(***************************************************************************)
EmptyMap == [k \in {} |-> <<>>]

\* MapPut as an assignment that adds to the value a key already has
MapPut_Append(m, k, v) ==
    [x \in (DOMAIN m) \cup {k} |->
        IF x = k THEN (IF k \in DOMAIN m THEN m[k] \o v ELSE v) ELSE m[x]]

\* MapPut as an insert, which leaves the value of a key the map already has
MapPut_KeepFirst(m, k, v) ==
    [x \in (DOMAIN m) \cup {k} |-> IF x \in DOMAIN m THEN m[x] ELSE v]

\* m[k] = v
MapPut(m, k, v) ==
    [x \in (DOMAIN m) \cup {k} |-> IF x = k THEN v ELSE m[x]]

(***************************************************************************)
(* scrape_url and parallel_scrape.                                         *)
(***************************************************************************)
\* jobs.push_back({url, ""}); st, resp, runs and writes record the worker's
\* position, the transport's answer and how often the job was run and written,
\* elapsed the seconds its curl_easy_perform has been waiting
NewScrapeJob(url) ==
    [url |-> url, result_html |-> <<>>, st |-> "unstarted", resp |-> NoResp,
     runs |-> 0, writes |-> 0, elapsed |-> 0]

\* LibcurlOutcomes as a worker that is handed the url of any job of the batch
LibcurlOutcomes_AnyUrl(u) == UNION {net[v] : v \in DOMAIN net}

\* what libcurl can do with the url set by CURLOPT_URL
LibcurlOutcomes(u) == net[u]

\* PerformResults without CURLOPT_TIMEOUT: curl_easy_perform waits for the
\* server for ever
PerformResults_NoTimeout(job) ==
    {a \in LibcurlOutcomes(job.url) : a.handle /\ a # Silent}

\* what curl_easy_perform can return to the worker of a job: the server's
\* answer while the timeout has not elapsed, CURLE_OPERATION_TIMEDOUT then
PerformResults(job) ==
    IF job.elapsed >= CURLOPT_TIMEOUT
    THEN {TimedOut}
    ELSE {a \in LibcurlOutcomes(job.url) : a.handle /\ a # Silent}

\* BuildJobs as a loop that gives every job the url of the first
BuildJobs_FirstUrl(us) == [i \in 1..Len(us) |-> NewScrapeJob(us[1])]

\* step 1 of parallel_scrape: one job per url, in order
BuildJobs(us) == [i \in 1..Len(us) |-> NewScrapeJob(us[i])]

\* the string scrape_url stores in job.result_html for an answer
scrape_url_result(r) ==
    IF r.handle
    THEN IF r.res = "CURLE_OK"
         THEN r.body
         ELSE CURL_ERROR_PREFIX \o curl_easy_strerror(r.res)
    ELSE CURL_INIT_ERROR

\* Running as a pool whose threads are not given back: a finished worker
\* still holds its thread
Running_Leak(js) == {i \in DOMAIN js : js[i].st \in {"running", "done"}}

\* the jobs whose worker is inside curl_easy_perform
Running(js) == {i \in DOMAIN js : js[i].st = "running"}

\* CanStart as a dispatcher that retries would have it: a job whose transfer
\* failed is handed out again
CanStart_RetryFailed(js, i) ==
    /\ \/ js[i].st = "unstarted"
       \/ js[i].st = "done" /\ js[i].resp.res # "CURLE_OK"
    /\ Cardinality(Running(js)) < NumThreads

\* CanStart as a fail-fast dispatcher would have it: no job is handed out once
\* a job of the batch has failed
CanStart_FailFast(js, i) ==
    /\ js[i].st = "unstarted"
    /\ Cardinality(Running(js)) < NumThreads
    /\ \A k \in DOMAIN js :
         js[k].st = "done" => js[k].resp.handle /\ js[k].resp.res = "CURLE_OK"

\* tbb::parallel_for_each hands a job to a worker: a job not yet taken, and a
\* free thread of the arena
CanStart(js, i) ==
    /\ js[i].st = "unstarted"
    /\ Cardinality(Running(js)) < NumThreads

\* AllFinished as a wait for the first completion instead of for all
AllFinished_Any(js) == js = <<>> \/ \E i \in DOMAIN js : js[i].st = "done"

\* tbb::parallel_for_each returns: the body has run to its end on every job
AllFinished(js) == \A i \in DOMAIN js : js[i].st = "done"

\* StoreResult as a worker that throws when it gets no handle, storing nothing
StoreResult_Raises(job, r) ==
    IF r.handle
    THEN [job EXCEPT !.result_html = scrape_url_result(r), !.st = "done",
                     !.resp = r, !.writes = @ + 1]
    ELSE [job EXCEPT !.st = "raised", !.resp = r]

\* StoreResult as a worker that also writes the address it ended at, after
\* the redirects, into the job
StoreResult_Redirected(job, r) ==
    [job EXCEPT !.result_html = scrape_url_result(r), !.st = "done",
                !.resp = r, !.writes = @ + 1, !.url = @ \o <<"/">>]

\* the job after scrape_url's assignment to job.result_html
StoreResult(job, r) ==
    [job EXCEPT !.result_html = scrape_url_result(r), !.st = "done",
                !.resp = r, !.writes = @ + 1]

\* MergeJobs as a merge that keeps only the jobs whose transfer succeeded
RECURSIVE MergeJobs_SkipFailed(_, _, _)
MergeJobs_SkipFailed(js, i, m) ==
    IF i > Len(js) THEN m
    ELSE MergeJobs_SkipFailed(js, i + 1,
             IF js[i].resp.handle /\ js[i].resp.res = "CURLE_OK"
             THEN MapPut(m, js[i].url, js[i].result_html)
             ELSE m)

\* step 3 of parallel_scrape: results[job.url] = job.result_html, in job order
RECURSIVE MergeJobs(_, _, _)
MergeJobs(js, i, m) ==
    IF i > Len(js) THEN m
    ELSE MergeJobs(js, i + 1, MapPut(m, js[i].url, js[i].result_html))

\* parallel_scrape, step 1
Build ==
    /\ pc = "build"
    /\ jobs' = BuildJobs(urls)
    /\ pc' = "dispatch"
    /\ UNCHANGED <<callVars, urls, results, probeVars, harvestVars>>

\* scrape_url up to curl_easy_perform: curl_easy_init gives a handle or NULL
ScrapeStart(i) ==
    /\ pc = "dispatch"
    /\ CanStart(jobs, i)
    /\ \E ok \in {a.handle : a \in LibcurlOutcomes(jobs[i].url)} :
         jobs' = [jobs EXCEPT ![i] =
                    IF ok
                    THEN [jobs[i] EXCEPT !.st = "running", !.runs = @ + 1]
                    ELSE StoreResult([jobs[i] EXCEPT !.runs = @ + 1], InitFailed)]
    /\ UNCHANGED <<callVars, urls, pc, results, probeVars, harvestVars>>

\* scrape_url from the return of curl_easy_perform, which answered r, to its end
ScrapePerformWith(i, r) ==
    /\ pc = "dispatch"
    /\ jobs[i].st = "running"
    /\ r \in PerformResults(jobs[i])
    /\ jobs' = [jobs EXCEPT ![i] = StoreResult(jobs[i], r)]
    /\ UNCHANGED <<callVars, urls, pc, results, probeVars, harvestVars>>

\* scrape_url from the return of curl_easy_perform to its end
ScrapePerform(i) ==
    \E r \in PerformResults(jobs[i]) : ScrapePerformWith(i, r)

\* a second passes while the worker of job i is inside curl_easy_perform
Tick(i) ==
    /\ pc = "dispatch"
    /\ jobs[i].st = "running"
    /\ jobs[i].elapsed < CURLOPT_TIMEOUT
    /\ jobs' = [jobs EXCEPT ![i].elapsed = @ + 1]
    /\ UNCHANGED <<callVars, urls, pc, results, probeVars, harvestVars>>

\* parallel_for_each returns to parallel_scrape
Join ==
    /\ pc = "dispatch"
    /\ AllFinished(jobs)
    /\ pc' = "collect"
    /\ UNCHANGED <<callVars, urls, jobs, results, probeVars, harvestVars>>

\* parallel_scrape, step 3 and the return
Collect ==
    /\ pc = "collect"
    /\ results' = MergeJobs(jobs, 1, EmptyMap)
    /\ pc' = "returned"
    /\ UNCHANGED <<callVars, urls, jobs, probeVars, harvestVars>>

(***************************************************************************)
(* check_sherlock_url and parallel_sherlock.                               *)
(***************************************************************************)
PLACEHOLDER == <<"{", "u", "s", "e", "r", "n", "a", "m", "e", "}">>
\* the length passed to url.replace
PlaceholderLen == 10

\* url.find("{username}") is npos: url.replace throws std::out_of_range
Malformed(site_template) == Find(site_template, PLACEHOLDER) = 0

\* ConcreteUrl as a loop that replaces the placeholder wherever it occurs
RECURSIVE ConcreteUrl_Everywhere(_, _)
ConcreteUrl_Everywhere(site_template, name) ==
    IF Find(site_template, PLACEHOLDER) = 0 THEN site_template
    ELSE ConcreteUrl_Everywhere(
             Replace(site_template, Find(site_template, PLACEHOLDER),
                     PlaceholderLen, name), name)

\* url.replace(url.find("{username}"), 10, username)
ConcreteUrl(site_template, name) ==
    Replace(site_template, Find(site_template, PLACEHOLDER), PlaceholderLen, name)

\* jobs.push_back({site_template, url, false})
NewSherlockJob(site_template, name) ==
    [site_name |-> site_template, url |-> ConcreteUrl(site_template, name),
     found |-> FALSE, st |-> "unstarted", resp |-> NoResp, runs |-> 0,
     writes |-> 0, elapsed |-> 0]

\* step 1 of parallel_sherlock, when no template makes url.replace throw
BuildSherlockJobs(sites, name) ==
    [i \in 1..Len(sites) |-> NewSherlockJob(sites[i], name)]

\* sherlock_found without the test of the status code: any completed
\* exchange counts as found
sherlock_found_AnyStatus(r) ==
    IF r.handle THEN r.res = "CURLE_OK" ELSE FALSE

\* sherlock_found as a worker that takes a transport error for a hit
sherlock_found_ErrorFound(r) ==
    IF r.handle
    THEN IF r.res = "CURLE_OK" THEN r.http_code = 200 ELSE TRUE
    ELSE FALSE

\* sherlock_found as a worker that takes a missing handle for a hit
sherlock_found_NoHandleFound(r) ==
    IF r.handle
    THEN IF r.res = "CURLE_OK" THEN r.http_code = 200 ELSE FALSE
    ELSE TRUE

\* the value check_sherlock_url stores in job.found for an answer
sherlock_found(r) ==
    IF r.handle
    THEN IF r.res = "CURLE_OK" THEN r.http_code = 200 ELSE FALSE
    ELSE FALSE

\* the job after check_sherlock_url's assignment to job.found
StoreFound(job, r) ==
    [job EXCEPT !.found = sherlock_found(r), !.st = "done", !.resp = r,
                !.writes = @ + 1]

\* CollectFound as a loop that puts each found url in front of the others
RECURSIVE CollectFound_Prepend(_, _, _)
CollectFound_Prepend(js, i, acc) ==
    IF i > Len(js) THEN acc
    ELSE CollectFound_Prepend(js, i + 1,
                              IF js[i].found THEN <<js[i].url>> \o acc ELSE acc)

\* step 3 of parallel_sherlock: the urls of the found jobs, in job order
RECURSIVE CollectFound(_, _, _)
CollectFound(js, i, acc) ==
    IF i > Len(js) THEN acc
    ELSE CollectFound(js, i + 1,
                      IF js[i].found THEN Append(acc, js[i].url) ELSE acc)

\* parallel_sherlock, step 1: the loop ends in std::out_of_range at the first
\* template without the placeholder, which unwinds the whole call
BuildProbe ==
    /\ ppc = "build"
    /\ IF \E i \in DOMAIN sites_to_check : Malformed(sites_to_check[i])
       THEN /\ ppc' = "threw"
            /\ UNCHANGED sjobs
       ELSE /\ sjobs' = BuildSherlockJobs(sites_to_check, username)
            /\ ppc' = "dispatch"
    /\ UNCHANGED <<callVars, username, sites_to_check, found_urls, scrapeVars,
                   harvestVars>>

\* check_sherlock_url up to curl_easy_perform
ProbeStart(i) ==
    /\ ppc = "dispatch"
    /\ CanStart(sjobs, i)
    /\ \E ok \in {a.handle : a \in LibcurlOutcomes(sjobs[i].url)} :
         sjobs' = [sjobs EXCEPT ![i] =
                     IF ok
                     THEN [sjobs[i] EXCEPT !.st = "running", !.runs = @ + 1]
                     ELSE StoreFound([sjobs[i] EXCEPT !.runs = @ + 1], InitFailed)]
    /\ UNCHANGED <<callVars, username, sites_to_check, ppc, found_urls, scrapeVars,
                   harvestVars>>

\* check_sherlock_url from the return of curl_easy_perform to its end
ProbePerform(i) ==
    /\ ppc = "dispatch"
    /\ sjobs[i].st = "running"
    /\ \E r \in PerformResults(sjobs[i]) :
         sjobs' = [sjobs EXCEPT ![i] = StoreFound(sjobs[i], r)]
    /\ UNCHANGED <<callVars, username, sites_to_check, ppc, found_urls, scrapeVars,
                   harvestVars>>

\* a second passes while the worker of probe job i is inside curl_easy_perform
ProbeTick(i) ==
    /\ ppc = "dispatch"
    /\ sjobs[i].st = "running"
    /\ sjobs[i].elapsed < CURLOPT_TIMEOUT
    /\ sjobs' = [sjobs EXCEPT ![i].elapsed = @ + 1]
    /\ UNCHANGED <<callVars, username, sites_to_check, ppc, found_urls, scrapeVars,
                   harvestVars>>

\* parallel_for_each returns to parallel_sherlock
ProbeJoin ==
    /\ ppc = "dispatch"
    /\ AllFinished(sjobs)
    /\ ppc' = "collect"
    /\ UNCHANGED <<callVars, username, sites_to_check, sjobs, found_urls, scrapeVars,
                   harvestVars>>

\* parallel_sherlock, step 3 and the return
ProbeCollect ==
    /\ ppc = "collect"
    /\ found_urls' = CollectFound(sjobs, 1, <<>>)
    /\ ppc' = "returned"
    /\ UNCHANGED <<callVars, username, sites_to_check, sjobs, scrapeVars, harvestVars>>

(***************************************************************************)
(* Character order and classes.                                            *)
(***************************************************************************)
\* the printable characters in the order of their codes, from the space on
\* (the grave accent, which no string of the model holds, is left out)
AsciiOrder ==
    << " ", "!", "\"", "#", "$", "%", "&", "'", "(", ")", "*", "+", ",",
       "-", ".", "/", "0", "1", "2", "3", "4", "5", "6", "7", "8", "9", ":",
       ";", "<", "=", ">", "?", "@", "A", "B", "C", "D", "E", "F", "G", "H",
       "I", "J", "K", "L", "M", "N", "O", "P", "Q", "R", "S", "T", "U", "V",
       "W", "X", "Y", "Z", "[", "\\", "]", "^", "_", "a", "b", "c",
       "d", "e", "f", "g", "h", "i", "j", "k", "l", "m", "n", "o", "p", "q",
       "r", "s", "t", "u", "v", "w", "x", "y", "z", "{", "|", "}", "~" >>

\* the rank of a character in std::string's comparison
Code(c) == CHOOSE i \in 1..Len(AsciiOrder) : AsciiOrder[i] = c

\* a < b of std::string, the order of the keys of a std::map
LexLess(a, b) ==
    \E i \in 1..(Len(b)) :
        /\ \A k \in 1..(i - 1) : k <= Len(a) /\ a[k] = b[k]
        /\ \/ i = Len(a) + 1
           \/ i <= Len(a) /\ Code(a[i]) < Code(b[i])

\* SortedKeys as a map ordered by std::greater: the greatest key comes first
RECURSIVE SortedKeys_Descending(_)
SortedKeys_Descending(K) ==
    IF K = {} THEN <<>>
    ELSE LET most == CHOOSE k \in K : \A o \in K \ {k} : LexLess(o, k)
         IN  <<most>> \o SortedKeys_Descending(K \ {most})

\* the keys of a map in the order in which a range-for visits them
RECURSIVE SortedKeys(_)
SortedKeys(K) ==
    IF K = {} THEN <<>>
    ELSE LET least == CHOOSE k \in K : \A o \in K \ {k} : LexLess(k, o)
         IN  <<least>> \o SortedKeys(K \ {least})

Lower ==
    { "a", "b", "c", "d", "e", "f", "g", "h", "i", "j", "k", "l", "m", "n",
      "o", "p", "q", "r", "s", "t", "u", "v", "w", "x", "y", "z" }
Upper ==
    { "A", "B", "C", "D", "E", "F", "G", "H", "I", "J", "K", "L", "M", "N",
      "O", "P", "Q", "R", "S", "T", "U", "V", "W", "X", "Y", "Z" }
Digit ==
    { "0", "1", "2", "3", "4", "5", "6", "7", "8", "9" }
\* [a-zA-Z]
Alpha == Lower \cup Upper
\* [a-zA-Z0-9._%+-]
EmailLocal == Alpha \cup Digit \cup {".", "_", "%", "+", "-"}
\* [a-zA-Z0-9.-]
HostChar == Alpha \cup Digit \cup {".", "-"}

\* the last position of the longest run of Class characters that starts at i,
\* i - 1 when s[i] is not in Class
RunEnd(s, i, Class) ==
    LET ends == {e \in (i - 1)..Len(s) : \A k \in i..e : s[k] \in Class}
    IN  CHOOSE e \in ends : \A o \in ends : o <= e

\* the greatest element of a non-empty set of positions
MaxPos(S) == CHOOSE x \in S : \A y \in S : y <= x

(***************************************************************************)
(* The two patterns of parallel_harvester, matched as std::regex matches   *)
(* them: leftmost start, every quantifier greedy, backtracking.            *)
(***************************************************************************)
\* email_regex anchored at st: the position of the last character of the
\* match, 0 when there is none.  The local part must run up to an @, the host
\* part gives back characters until a dot followed by two letters is left.
EmailMatchEnd(s, st) ==
    LET a == RunEnd(s, st, EmailLocal)
        m == RunEnd(s, a + 2, HostChar)
        qs == {q \in (a + 3)..m :
                 /\ s[q] = "."
                 /\ q + 2 <= Len(s)
                 /\ s[q + 1] \in Alpha
                 /\ s[q + 2] \in Alpha}
    IN  IF a < st \/ a + 1 > Len(s) THEN 0
        ELSE IF s[a + 1] # "@" \/ qs = {} THEN 0
        ELSE RunEnd(s, MaxPos(qs) + 1, Alpha)

\* the matches std::sregex_iterator yields for email_regex from position from
RECURSIVE EmailScan(_, _)
EmailScan(s, from) ==
    LET starts == {st \in from..Len(s) : EmailMatchEnd(s, st) # 0}
    IN  IF starts = {} THEN <<>>
        ELSE LET st == CHOOSE x \in starts : \A y \in starts : x <= y
                 e == EmailMatchEnd(s, st)
             IN  <<Sub(s, st, e)>> \o EmailScan(s, e + 1)

\* one character of the domain, spliced into the pattern, against one of the
\* text: a dot of the domain is the pattern's any-character
DomainCharMatches(d, c) ==
    IF d = "." THEN c \notin {"\n", "\r"} ELSE d = c

\* the domain part of subdomain_regex matches the text from position i on
DomainMatchesAt(s, i, dom) ==
    /\ i + Len(dom) - 1 <= Len(s)
    /\ \A k \in 1..Len(dom) : DomainCharMatches(dom[k], s[i + k - 1])

\* subdomain_regex anchored at st: the position of the last character of the
\* match, 0 when there is none
SubdomainMatchEnd(s, st, dom) ==
    LET m == RunEnd(s, st, HostChar)
        qs == {q \in (st + 1)..m : s[q] = "." /\ DomainMatchesAt(s, q + 1, dom)}
    IN  IF qs = {} THEN 0 ELSE MaxPos(qs) + Len(dom)

\* the matches std::sregex_iterator yields for subdomain_regex
RECURSIVE SubdomainScan(_, _, _)
SubdomainScan(s, from, dom) ==
    LET starts == {st \in from..Len(s) : SubdomainMatchEnd(s, st, dom) # 0}
    IN  IF starts = {} THEN <<>>
        ELSE LET st == CHOOSE x \in starts : \A y \in starts : x <= y
                 e == SubdomainMatchEnd(s, st, dom)
             IN  <<Sub(s, st, e)>> \o SubdomainScan(s, e + 1, dom)

\* the std::regex constructor accepts the pattern with the domain spliced in:
\* every parenthesis of the domain is closed and none closes the pattern's own
\* group.  (The domains of the model hold letters, dots and parentheses.)
RECURSIVE ParenDepth(_, _, _)
ParenDepth(dom, i, depth) ==
    IF depth < 0 THEN depth
    ELSE IF i > Len(dom) THEN depth
    ELSE ParenDepth(dom, i + 1,
                    IF dom[i] = "(" THEN depth + 1
                    ELSE IF dom[i] = ")" THEN depth - 1 ELSE depth)

RegexCompiles(dom) == ParenDepth(dom, 1, 0) = 0

(***************************************************************************)
(* parallel_harvester.                                                     *)
(***************************************************************************)
SEARCH_PREFIX ==
    << "h", "t", "t", "p", "s", ":", "/", "/", "w", "w", "w", ".", "g", "o",
       "o", "g", "l", "e", ".", "c", "o", "m", "/", "s", "e", "a", "r", "c",
       "h", "?", "q", "=" >>
SEARCH_SUFFIX == << "&", "n", "u", "m", "=", "5", "0" >>

\* Dorks as a list whose first query is the second once more
Dorks_Repeat(dom) ==
    << <<"\"", "@">> \o dom \o <<"\"">>,
       <<"\"", "@">> \o dom \o <<"\"">>,
       << "s", "i", "t", "e", ":", "*", "." >> \o dom >>

\* step 1 of parallel_harvester: the three dork queries
Dorks(dom) ==
    << << "s", "i", "t", "e", ":", "g", "o", "o", "g", "l", "e", ".", "c", "o",
          "m", " ", "\"", "@" >>
          \o dom \o <<"\"">>,
       <<"\"", "@">> \o dom \o <<"\"">>,
       << "s", "i", "t", "e", ":", "*", "." >> \o dom >>

\* step 2 of parallel_harvester: the urls handed to parallel_scrape
UrlsToScrape(dom) ==
    [i \in 1..Len(Dorks(dom)) |-> SEARCH_PREFIX \o Dorks(dom)[i] \o SEARCH_SUFFIX]

\* Skipped without the test for the sentinel: every entry is scanned
Skipped_Never(html) == FALSE

\* the loop body skips the entry: html.find("CURL_ERROR") != npos
Skipped(html) == Contains(html, CURL_ERROR)

\* KeepInDomain without the test of the domain: every match is kept
KeepInDomain_All(ms, i, dom) == Sub(ms, i, Len(ms))

\* the emails of one html the loop body appends: the matches that contain the
\* domain
RECURSIVE KeepInDomain(_, _, _)
KeepInDomain(ms, i, dom) ==
    IF i > Len(ms) THEN <<>>
    ELSE (IF Contains(ms[i], dom) THEN <<ms[i]>> ELSE <<>>)
         \o KeepInDomain(ms, i + 1, dom)

\* ScanEntry as a loop body that appends a host name only when the list does
\* not hold it yet
ScanEntry_NewOnly(fr, html, dom) ==
    [emails |-> fr.emails \o KeepInDomain(EmailScan(html, 1), 1, dom),
     subdomains |->
        fr.subdomains \o
        SelectSeq(SubdomainScan(html, 1, dom),
                  LAMBDA x : x \notin {fr.subdomains[i] : i \in DOMAIN fr.subdomains})]

\* ScanEntry as a loop body that appends an address only when the list does
\* not hold it yet
ScanEntry_UniqueEmails(fr, html, dom) ==
    [emails |->
        fr.emails \o
        SelectSeq(KeepInDomain(EmailScan(html, 1), 1, dom),
                  LAMBDA x : x \notin {fr.emails[i] : i \in DOMAIN fr.emails}),
     subdomains |-> fr.subdomains \o SubdomainScan(html, 1, dom)]

\* final_results after the loop body has run on one entry that is not skipped
ScanEntry(fr, html, dom) ==
    [emails |-> fr.emails \o KeepInDomain(EmailScan(html, 1), 1, dom),
     subdomains |-> fr.subdomains \o SubdomainScan(html, 1, dom)]

\* parallel_harvester, steps 1 to 3: the call of parallel_scrape
HarvestBuild ==
    /\ hpc = "build"
    /\ pc = "idle"
    /\ urls' = UrlsToScrape(domain)
    /\ pc' = "build"
    /\ hpc' = "scraping"
    /\ UNCHANGED <<callVars, jobs, results, probeVars, domain, scraped_html_map, it,
                   final_results, scanned>>

\* parallel_scrape has returned; step 4 builds the two patterns, and the
\* std::regex constructor throws std::regex_error on an ill-formed one
HarvestRegex ==
    /\ hpc = "scraping"
    /\ pc = "returned"
    /\ scraped_html_map' = results
    /\ hpc' = IF RegexCompiles(domain) THEN "process" ELSE "threw"
    /\ UNCHANGED <<callVars, scrapeVars, probeVars, domain, it, final_results,
                   scanned>>

\* step 5, one turn of the loop over the map
HarvestProcess ==
    /\ hpc = "process"
    /\ it < Cardinality(DOMAIN scraped_html_map)
    /\ LET key == SortedKeys(DOMAIN scraped_html_map)[it + 1]
           html == scraped_html_map[key]
       IN  IF Skipped(html)
           THEN UNCHANGED <<final_results, scanned>>
           ELSE /\ final_results' = ScanEntry(final_results, html, domain)
                /\ scanned' = scanned \cup {key}
    /\ it' = it + 1
    /\ UNCHANGED <<callVars, scrapeVars, probeVars, domain, hpc, scraped_html_map>>

\* the loop is over: return final_results
HarvestReturn ==
    /\ hpc = "process"
    /\ it = Cardinality(DOMAIN scraped_html_map)
    /\ hpc' = "returned"
    /\ UNCHANGED <<callVars, scrapeVars, probeVars, domain, scraped_html_map, it,
                   final_results, scanned>>

(***************************************************************************)
(* The calls the model explores.                                           *)
(***************************************************************************)
\* URLs a direct caller of parallel_scrape passes
CallerUrls == { <<"u", "1">>, <<"u", "2">>, <<"U", "1">> }

RECURSIVE SeqsUpTo(_, _)
SeqsUpTo(S, n) ==
    IF n = 0 THEN {<<>>}
    ELSE LET shorter == SeqsUpTo(S, n - 1)
         IN  shorter \cup {Append(s, x) : s \in shorter, x \in S}

\* site templates of sherlock_sites.json, one of them without the placeholder
SiteTemplates ==
    { <<"s", "/", "{", "u", "s", "e", "r", "n", "a", "m", "e", "}">>,
      <<"{", "u", "s", "e", "r", "n", "a", "m", "e", "}", ".", "t", "/",
        "{", "u", "s", "e", "r", "n", "a", "m", "e", "}">>,
      <<"s", "/", "x">> }

\* candidate identifiers
Usernames == { <<"a", "l">>, <<"z">> }

\* every outcome of a GET: no handle, or an answer of GetResponses
ScrapeOutcomes == GetResponses \cup {InitFailed}
\* every outcome of a header-only request
ProbeOutcomes == HeadResponses \cup {InitFailed}
\* every outcome of the GET of a search page
SearchOutcomes == GetResponsesOf(SearchBodies) \cup {InitFailed}

\* the urls parallel_sherlock probes for its arguments
ProbedUrls(sites, name) ==
    {ConcreteUrl(sites[i], name) : i \in {k \in DOMAIN sites : ~Malformed(sites[k])}}

InitScrape ==
    /\ mode = "scrape"
    /\ urls \in SeqsUpTo(CallerUrls, MaxUrls)
    /\ net = [u \in {urls[i] : i \in DOMAIN urls} |-> ScrapeOutcomes]
    /\ pc = "build"
    /\ username = <<>> /\ sites_to_check = <<>> /\ ppc = "idle"
    /\ domain = <<>> /\ hpc = "idle"

InitProbe ==
    /\ mode = "probe"
    /\ username \in Usernames
    /\ sites_to_check \in SeqsUpTo(SiteTemplates, MaxSites)
    /\ net = [u \in ProbedUrls(sites_to_check, username) |-> ProbeOutcomes]
    /\ ppc = "build"
    /\ urls = <<>> /\ pc = "idle"
    /\ domain = <<>> /\ hpc = "idle"

\* target domains, one of them with a parenthesis that is never closed
Domains ==
    { <<"e", ".", "c", "o">>, <<"e", "(", "c", "o">>,
      <<"e", "x", "a", "m", "p", "l", "e", ".", "c", "o", "m">> }

InitHarvest ==
    /\ mode = "harvest"
    /\ domain \in Domains
    /\ net = [u \in {UrlsToScrape(domain)[i] :
                        i \in DOMAIN UrlsToScrape(domain)} |-> SearchOutcomes]
    /\ hpc = "build"
    /\ urls = <<>> /\ pc = "idle"
    /\ username = <<>> /\ sites_to_check = <<>> /\ ppc = "idle"

(***************************************************************************)
(* The user interface when the page has loaded.                            *)
(***************************************************************************)
\* the panels of the page that initializePanels registers
NumPanels == 2
PanelIds == 1..NumPanels

\* the inline style setDefaultPosition gives a panel: a CSSStyleDeclaration
\* is the sequence of its declarations, in the order they were set
DefaultStyle ==
    << <<"width", "300px">>, <<"height", "200px">>,
       <<"left", "200px">>, <<"top", "200px">> >>

\* the entry ARGUS.panels gets for a panel, with its element
RegisteredPanel ==
    [isMinimized |-> FALSE, isMaximized |-> FALSE, savedState |-> <<>>,
     style |-> DefaultStyle, classList |-> {}]

HandsFresh ==
    /\ handTrackingActive = FALSE
    /\ videoStream = 0
    /\ handCalls = 0
    /\ handStarts = <<>>
    /\ handStops = 0
    /\ handPasses = {}

VoiceFresh ==
    /\ mediaRecorder = 0
    /\ recorders = <<>>
    /\ isListening = FALSE
    /\ voiceStarts = 0
    /\ voiceHeld = FALSE

ChatFresh ==
    /\ sentMessages = <<>>
    /\ commands = <<>>

PanelsFresh ==
    /\ panels = [p \in PanelIds |-> RegisteredPanel]
    /\ taskbar = [display |-> "", children |-> <<>>]
    /\ dragState = <<>>

GestureFresh ==
    /\ lastGestureTime = 0
    /\ performed = <<>>

ViewerFresh ==
    /\ viewportActive = FALSE
    /\ animationFrames = <<>>
    /\ viewerCalls = 0

\* the page when its scripts have loaded and no handler has run
PageFresh ==
    /\ HandsFresh
    /\ VoiceFresh
    /\ ChatFresh
    /\ PanelsFresh
    /\ GestureFresh
    /\ ViewerFresh

\* window.messageQueue when no script has made it
NoQueue == [defined |-> FALSE, items |-> <<>>]

\* the page as the engine's calls leave it: nothing of it has run
UiFresh ==
    /\ PageFresh
    /\ argusBackend = "undefined"
    /\ messageQueue = NoQueue
    /\ now = 0

\* the file of a call that begins after the site list was loaded
Unread == [state |-> "unread", sites |-> EmptyMap]

\* the state every call starts from, but for the site file
FreshCall ==
    /\ jobs = <<>>
    /\ results = EmptyMap
    /\ sjobs = <<>>
    /\ found_urls = <<>>
    /\ scraped_html_map = EmptyMap
    /\ it = 0
    /\ final_results = [emails |-> <<>>, subdomains |-> <<>>]
    /\ scanned = {}
    /\ run = 1
    /\ first_results = EmptyMap
    /\ first_harvest = [emails |-> <<>>, subdomains |-> <<>>]
    /\ UiFresh

\* the state every call starts from
Fresh == FreshCall /\ site_file = Unread

Init == Fresh /\ (InitScrape \/ InitProbe \/ InitHarvest)

Next ==
    \/ Build
    \/ \E i \in DOMAIN jobs : ScrapeStart(i)
    \/ \E i \in DOMAIN jobs : ScrapePerform(i)
    \/ Join
    \/ Collect
    \/ BuildProbe
    \/ \E i \in DOMAIN sjobs : ProbeStart(i)
    \/ \E i \in DOMAIN sjobs : ProbePerform(i)
    \/ ProbeJoin
    \/ ProbeCollect
    \/ HarvestBuild
    \/ HarvestRegex
    \/ HarvestProcess
    \/ HarvestReturn

Spec == Init /\ [][Next]_vars

(***************************************************************************)
(* The same calls against a transport whose outcome is a fixed function of *)
(* the url, with parallel_scrape called twice on the same list.            *)
(***************************************************************************)
\* URLs the caller passes here
DetUrls == { <<"u", "1">>, <<"u", "2">> }

\* the site templates that hold the placeholder
WellFormedTemplates == {t \in SiteTemplates : ~Malformed(t)}

\* the transports that have one outcome for each url of us, drawn from outs
FixedNets(us, outs) == [us -> {{o} : o \in outs}]

InitDetScrape ==
    /\ mode = "scrape"
    /\ urls \in SeqsUpTo(DetUrls, MaxUrls)
    /\ net \in FixedNets({urls[i] : i \in DOMAIN urls}, ScrapeOutcomes)
    /\ pc = "build"
    /\ username = <<>> /\ sites_to_check = <<>> /\ ppc = "idle"
    /\ domain = <<>> /\ hpc = "idle"

InitDetProbe ==
    /\ mode = "probe"
    /\ username \in Usernames
    /\ sites_to_check \in SeqsUpTo(WellFormedTemplates, MaxSites)
    /\ net \in FixedNets(ProbedUrls(sites_to_check, username), ProbeOutcomes)
    /\ ppc = "build"
    /\ urls = <<>> /\ pc = "idle"
    /\ domain = <<>> /\ hpc = "idle"

InitDet == Fresh /\ (InitDetScrape \/ InitDetProbe)

\* the caller keeps the map of its first call and calls parallel_scrape again
\* with the same list
CallAgain ==
    /\ mode = "scrape"
    /\ pc = "returned"
    /\ run = 1
    /\ first_results' = results
    /\ run' = run + 1
    /\ jobs' = <<>>
    /\ results' = EmptyMap
    /\ pc' = "build"
    /\ UNCHANGED <<mode, net, first_harvest, site_file, uiVars, urls,
                   probeVars, harvestVars>>

NextDet ==
    \/ Build
    \/ \E i \in DOMAIN jobs : ScrapeStart(i)
    \/ \E i \in DOMAIN jobs : ScrapePerform(i)
    \/ Join
    \/ Collect
    \/ CallAgain
    \/ BuildProbe
    \/ \E i \in DOMAIN sjobs : ProbeStart(i)
    \/ \E i \in DOMAIN sjobs : ProbePerform(i)
    \/ ProbeJoin
    \/ ProbeCollect

SpecDet == InitDet /\ [][NextDet]_vars

(***************************************************************************)
(* parallel_harvester called twice on the same domain, against a transport *)
(* whose outcome is a fixed function of the url.                           *)
(***************************************************************************)
\* the outcomes of the GET of a search page here: two pages, a transport
\* error and no handle
HarvestOutcomes ==
    {[handle |-> TRUE, res |-> "CURLE_OK", body |-> b, http_code |-> 200] :
        b \in {MixedPage, ExamplePage}}
    \cup {TimedOut, InitFailed}

InitHarvestDet ==
    /\ Fresh
    /\ mode = "harvest"
    /\ domain \in Domains
    /\ net \in FixedNets({UrlsToScrape(domain)[i] :
                             i \in DOMAIN UrlsToScrape(domain)}, HarvestOutcomes)
    /\ hpc = "build"
    /\ urls = <<>> /\ pc = "idle"
    /\ username = <<>> /\ sites_to_check = <<>> /\ ppc = "idle"

\* the caller keeps the HarvesterResults of its first call and calls
\* parallel_harvester again with the same domain
HarvestAgain ==
    /\ hpc = "returned"
    /\ run = 1
    /\ first_harvest' = final_results
    /\ run' = run + 1
    /\ urls' = <<>>
    /\ pc' = "idle"
    /\ jobs' = <<>>
    /\ results' = EmptyMap
    /\ hpc' = "build"
    /\ scraped_html_map' = EmptyMap
    /\ it' = 0
    /\ final_results' = [emails |-> <<>>, subdomains |-> <<>>]
    /\ scanned' = {}
    /\ UNCHANGED <<mode, net, first_results, site_file, uiVars, probeVars,
                   domain>>

NextHarvest ==
    \/ HarvestBuild
    \/ Build
    \/ \E i \in DOMAIN jobs : ScrapeStart(i)
    \/ \E i \in DOMAIN jobs : ScrapePerform(i)
    \/ Join
    \/ Collect
    \/ HarvestRegex
    \/ HarvestProcess
    \/ HarvestReturn
    \/ HarvestAgain

SpecHarvest == InitHarvestDet /\ [][NextHarvest]_vars

(***************************************************************************)
(* The three calls with the load of the site list: parallel_sherlock       *)
(* takes the identifier alone and gets its templates from                  *)
(* load_sherlock_sites.                                                    *)
(***************************************************************************)
\* the site list of a well-formed file: site name to url template
GoodSites ==
    [n \in {<<"a">>, <<"b">>} |->
        IF n = <<"a">>
        THEN <<"s", "/", "{", "u", "s", "e", "r", "n", "a", "m", "e", "}">>
        ELSE <<"{", "u", "s", "e", "r", "n", "a", "m", "e", "}", ".", "t", "/",
               "{", "u", "s", "e", "r", "n", "a", "m", "e", "}">>]

\* sherlock_sites.json: not there, there with text that is not JSON, or
\* there with a site list
SiteFiles ==
    { [state |-> "missing", sites |-> EmptyMap],
      [state |-> "unparsable", sites |-> EmptyMap],
      [state |-> "ok", sites |-> GoodSites] }

\* LoadThrows as a parse that gives up silently: the loader returns an empty
\* list for a file it cannot read
LoadThrows_Never(f) == FALSE

\* file >> j throws nlohmann::json::parse_error: the stream of a missing file
\* has nothing to read, and text that is not JSON does not parse
LoadThrows(f) == f.state \in {"missing", "unparsable"}

\* the map load_sherlock_sites returns for a file it can parse
load_sherlock_sites(f) == f.sites

\* the templates of the map, in the order of its keys
SitesToCheck(sites) ==
    [i \in 1..Cardinality(DOMAIN sites) |-> sites[SortedKeys(DOMAIN sites)[i]]]

\* the beginning of parallel_sherlock: the site list is loaded, and an
\* exception of the load leaves the call before any job is built
ProbeLoad ==
    /\ ppc = "load"
    /\ IF LoadThrows(site_file)
       THEN /\ ppc' = "load_threw"
            /\ UNCHANGED sites_to_check
       ELSE /\ sites_to_check' = SitesToCheck(load_sherlock_sites(site_file))
            /\ ppc' = "build"
    /\ UNCHANGED <<callVars, username, sjobs, found_urls, scrapeVars, harvestVars>>

InitLoadProbe ==
    /\ mode = "probe"
    /\ username \in Usernames
    /\ sites_to_check = <<>>
    /\ net = [u \in ProbedUrls(SitesToCheck(site_file.sites), username) |->
                 ProbeOutcomes]
    /\ ppc = "load"
    /\ urls = <<>> /\ pc = "idle"
    /\ domain = <<>> /\ hpc = "idle"

InitLoadScrape ==
    /\ mode = "scrape"
    /\ urls \in SeqsUpTo(DetUrls, MaxUrls)
    /\ net \in FixedNets({urls[i] : i \in DOMAIN urls}, ScrapeOutcomes)
    /\ pc = "build"
    /\ username = <<>> /\ sites_to_check = <<>> /\ ppc = "idle"
    /\ domain = <<>> /\ hpc = "idle"

InitLoadHarvest ==
    /\ mode = "harvest"
    /\ domain \in Domains
    /\ net \in FixedNets({UrlsToScrape(domain)[i] :
                             i \in DOMAIN UrlsToScrape(domain)}, HarvestOutcomes)
    /\ hpc = "build"
    /\ urls = <<>> /\ pc = "idle"
    /\ username = <<>> /\ sites_to_check = <<>> /\ ppc = "idle"

InitLoad ==
    /\ FreshCall
    /\ site_file \in SiteFiles
    /\ (InitLoadProbe \/ InitLoadScrape \/ InitLoadHarvest)

\* the steps of a probe and of a bulk scrape with the load
LoadPool ==
    \/ ProbeLoad
    \/ BuildProbe
    \/ \E i \in DOMAIN sjobs : ProbeStart(i)
    \/ \E i \in DOMAIN sjobs : ProbePerform(i)
    \/ ProbeJoin
    \/ ProbeCollect
    \/ Build
    \/ \E i \in DOMAIN jobs : ScrapeStart(i)
    \/ \E i \in DOMAIN jobs : ScrapePerform(i)
    \/ Join
    \/ Collect

NextLoad ==
    \/ LoadPool
    \/ HarvestBuild
    \/ HarvestRegex
    \/ HarvestProcess
    \/ HarvestReturn

\* every call runs on: the pool runs a job whenever a thread is free and
\* curl_easy_perform returns
SpecLoad == InitLoad /\ [][NextLoad]_vars /\ WF_vars(LoadPool)

(***************************************************************************)
(* The same calls with the seconds of curl_easy_perform counted, against   *)
(* servers that may never answer.                                          *)
(***************************************************************************)
\* URLs the caller passes here
TimedUrls == { <<"u", "1">> }

\* site templates of the list here
TimedTemplates == { <<"s", "/", "{", "u", "s", "e", "r", "n", "a", "m", "e", "}">> }

\* a server that never answers, or one that answers with answer a unless it
\* is too late
SlowNets(us, a) == [us -> {{Silent}, {Silent, a}}]

InitTimedScrape ==
    /\ mode = "scrape"
    /\ urls \in SeqsUpTo(TimedUrls, MaxUrls)
    /\ net \in SlowNets({urls[i] : i \in DOMAIN urls},
                        [handle |-> TRUE, res |-> "CURLE_OK", body |-> MixedPage,
                         http_code |-> 200])
    /\ pc = "build"
    /\ username = <<>> /\ sites_to_check = <<>> /\ ppc = "idle"
    /\ domain = <<>> /\ hpc = "idle"

InitTimedProbe ==
    /\ mode = "probe"
    /\ username \in Usernames
    /\ sites_to_check \in SeqsUpTo(TimedTemplates, MaxSites)
    /\ net \in SlowNets(ProbedUrls(sites_to_check, username),
                        [handle |-> TRUE, res |-> "CURLE_OK", body |-> <<>>,
                         http_code |-> 200])
    /\ ppc = "build"
    /\ urls = <<>> /\ pc = "idle"
    /\ domain = <<>> /\ hpc = "idle"

InitTimed == Fresh /\ (InitTimedScrape \/ InitTimedProbe)

NextTimed ==
    \/ Build
    \/ \E i \in DOMAIN jobs : ScrapeStart(i)
    \/ \E i \in DOMAIN jobs : Tick(i)
    \/ \E i \in DOMAIN jobs : ScrapePerform(i)
    \/ Join
    \/ Collect
    \/ BuildProbe
    \/ \E i \in DOMAIN sjobs : ProbeStart(i)
    \/ \E i \in DOMAIN sjobs : ProbeTick(i)
    \/ \E i \in DOMAIN sjobs : ProbePerform(i)
    \/ ProbeJoin
    \/ ProbeCollect

\* the arena runs a job whenever a thread is free, time passes, and
\* curl_easy_perform returns when it has an answer or the timeout is over
SpecTimed == InitTimed /\ [][NextTimed]_vars /\ WF_vars(NextTimed)

(***************************************************************************)
(* The page with no call of the engine in progress.                        *)
(***************************************************************************)
EngineIdle ==
    /\ mode = "ui"
    /\ net = EmptyMap
    /\ site_file = Unread
    /\ urls = <<>> /\ pc = "idle"
    /\ username = <<>> /\ sites_to_check = <<>> /\ ppc = "idle"
    /\ domain = <<>> /\ hpc = "idle"
    /\ jobs = <<>>
    /\ results = EmptyMap
    /\ sjobs = <<>>
    /\ found_urls = <<>>
    /\ scraped_html_map = EmptyMap
    /\ it = 0
    /\ final_results = [emails |-> <<>>, subdomains |-> <<>>]
    /\ scanned = {}
    /\ run = 1
    /\ first_results = EmptyMap
    /\ first_harvest = [emails |-> <<>>, subdomains |-> <<>>]

\* the page when it has loaded, with no socket and no queue yet
InitPage ==
    /\ EngineIdle
    /\ UiFresh

(***************************************************************************)
(* Hand tracking (src/unnamed/part_000, lines 43-166).                     *)
(***************************************************************************)
\* clicks on the hand button in one run
MaxToggles == 4

\* the awaits of startHandTracking, in their order
HandAwaits == <<"vision", "landmarker", "camera", "play">>

\* a sequence without its i-th element
Without(q, i) == SubSeq(q, 1, i - 1) \o SubSeq(q, i + 1, Len(q))

\* detectHands: an invocation returns at its guard when the flag is down;
\* past the guard it counts the frame and reads results.landmarks, which
\* throws the ReferenceError of a const read before its declaration (line
\* 140 before line 144), so that it neither awaits detectForVideo nor asks
\* for the next animation frame.  The value is the set of the invocations
\* that went past the guard.
detectHands(active, passes, invocation) ==
    IF ~active THEN passes ELSE passes \cup {invocation}

\* stopHandTracking
stopHandTracking ==
    /\ handTrackingActive' = FALSE
    /\ videoStream' = 0
    /\ handStops' = handStops + 1
    /\ UNCHANGED <<handCalls, handStarts, handPasses>>

\* startHandTracking up to its first await; the call remembers how many
\* stops there had been when it began
startHandTracking ==
    /\ handCalls' = handCalls + 1
    /\ handStarts' = Append(handStarts,
                            [id |-> handCalls + 1, at |-> 1, since |-> handStops])
    /\ UNCHANGED <<handTrackingActive, videoStream, handStops, handPasses>>

\* a click on the hand button
toggleHandTracking ==
    /\ handCalls + handStops < MaxToggles
    /\ IF handTrackingActive THEN stopHandTracking ELSE startHandTracking
    /\ UNCHANGED <<engineVars, voiceVars, chatVars, panelVars, gestureVars,
                   viewerVars>>

\* the promise startHandTracking call i awaits resolves, and the call runs
\* to its next await; after video.play() it runs to its end, where it
\* raises the flag and invokes detectHands
StartResume(i) ==
    LET c == handStarts[i] IN
    /\ IF c.at < Len(HandAwaits)
       THEN /\ handStarts' = [handStarts EXCEPT ![i].at = c.at + 1]
            /\ videoStream' =
                 IF HandAwaits[c.at] = "camera" THEN c.id ELSE videoStream
            /\ UNCHANGED <<handTrackingActive, handPasses>>
       ELSE /\ handStarts' = Without(handStarts, i)
            /\ handTrackingActive' = TRUE
            /\ handPasses' =
                 detectHands(handTrackingActive', handPasses,
                             [call |-> c.id, since |-> c.since,
                              stops |-> handStops])
            /\ UNCHANGED videoStream
    /\ UNCHANGED <<handCalls, handStops>>
    /\ UNCHANGED <<engineVars, voiceVars, chatVars, panelVars, gestureVars,
                   viewerVars>>

\* the promise startHandTracking call i awaits rejects (the model cannot be
\* fetched, the camera is refused): the catch block ends the call
StartReject(i) ==
    /\ handStarts' = Without(handStarts, i)
    /\ UNCHANGED <<handTrackingActive, videoStream, handCalls, handStops,
                   handPasses>>
    /\ UNCHANGED <<engineVars, voiceVars, chatVars, panelVars, gestureVars,
                   viewerVars>>

NextHands ==
    \/ toggleHandTracking
    \/ \E i \in DOMAIN handStarts : StartResume(i)
    \/ \E i \in DOMAIN handStarts : StartReject(i)

SpecHands == InitPage /\ [][NextHands]_vars

(***************************************************************************)
(* Hold-to-speak (src/renderer.js, lines 389-477 and 502-505).             *)
(***************************************************************************)
\* presses of the voice button in one run
MaxPresses == 5

\* stopVoiceInput: the current recorder is stopped if it is recording, and
\* the flag goes down
stopVoiceInput ==
    /\ recorders' =
         IF mediaRecorder # 0 /\ recorders[mediaRecorder] = "recording"
         THEN [recorders EXCEPT ![mediaRecorder] = "inactive"]
         ELSE recorders
    /\ isListening' = FALSE
    /\ UNCHANGED <<mediaRecorder, voiceStarts>>

\* mousedown on the voice button: startVoiceInput runs to its await of
\* getUserMedia
VoicePress ==
    /\ ~voiceHeld
    /\ voiceStarts + Len(recorders) < MaxPresses
    /\ voiceHeld' = TRUE
    /\ voiceStarts' = voiceStarts + 1
    /\ UNCHANGED <<mediaRecorder, recorders, isListening>>
    /\ UNCHANGED <<engineVars, handVars, chatVars, panelVars, gestureVars,
                   viewerVars>>

\* mouseup or mouseleave on the voice button
VoiceRelease ==
    /\ voiceHeld
    /\ voiceHeld' = FALSE
    /\ stopVoiceInput
    /\ UNCHANGED <<engineVars, handVars, chatVars, panelVars, gestureVars,
                   viewerVars>>

\* the microphone is granted to a startVoiceInput call: it makes a
\* MediaRecorder, starts it and raises the flag
VoiceGrant ==
    /\ voiceStarts > 0
    /\ voiceStarts' = voiceStarts - 1
    /\ recorders' = Append(recorders, "recording")
    /\ mediaRecorder' = Len(recorders) + 1
    /\ isListening' = TRUE
    /\ UNCHANGED voiceHeld
    /\ UNCHANGED <<engineVars, handVars, chatVars, panelVars, gestureVars,
                   viewerVars>>

\* the microphone is refused: the catch block ends the call
VoiceDeny ==
    /\ voiceStarts > 0
    /\ voiceStarts' = voiceStarts - 1
    /\ UNCHANGED <<mediaRecorder, recorders, isListening, voiceHeld>>
    /\ UNCHANGED <<engineVars, handVars, chatVars, panelVars, gestureVars,
                   viewerVars>>

NextVoice ==
    \/ VoicePress
    \/ VoiceRelease
    \/ VoiceGrant
    \/ VoiceDeny

SpecVoice == InitPage /\ [][NextVoice]_vars

(***************************************************************************)
(* Commands to the backend (src/renderer.js, lines 524-544).               *)
(***************************************************************************)
\* sendMessage calls in one run
MaxCommands == 3

\* the texts a command can have
Texts == {"yes", "no"}

\* window.argusBackend as sendMessage can find it: not there, or a WebSocket
\* in one of its four ready states
SocketStates == {"undefined", "CONNECTING", "OPEN", "CLOSING", "CLOSED"}

\* JSON.stringify({type: 'text_command', data: {text}})
TextCommand(text) == <<"text_command", text>>

\* sendMessage: the message goes out on an open socket; without one it is
\* pushed on window.messageQueue if there is such a queue
sendMessage(text) ==
    /\ commands' = Append(commands, text)
    /\ IF argusBackend = "OPEN"
       THEN /\ sentMessages' = Append(sentMessages, TextCommand(text))
            /\ UNCHANGED messageQueue
       ELSE /\ messageQueue' =
                 IF messageQueue.defined
                 THEN [messageQueue EXCEPT
                          !.items = Append(@, TextCommand(text))]
                 ELSE messageQueue
            /\ UNCHANGED sentMessages
    /\ UNCHANGED argusBackend

\* the user sends a command: Enter or the send button of the chat, an entry
\* of the radial menu, a button of the forge
Command ==
    /\ Len(commands) < MaxCommands
    /\ \E text \in Texts : sendMessage(text)
    /\ UNCHANGED <<engineVars, handVars, voiceVars, panelVars, gestureVars,
                   viewerVars>>

\* the socket is made, opens, closes, or is replaced by a new one
SocketChange ==
    /\ \E st \in SocketStates \ {"undefined", argusBackend} :
          /\ st = "OPEN" => argusBackend = "CONNECTING"
          /\ st = "CLOSING" => argusBackend \in {"CONNECTING", "OPEN"}
          /\ st = "CLOSED" => argusBackend # "undefined"
          /\ argusBackend' = st
    /\ UNCHANGED <<messageQueue, sentMessages, commands>>
    /\ UNCHANGED <<engineVars, handVars, voiceVars, panelVars, gestureVars,
                   viewerVars>>

InitChat ==
    /\ EngineIdle
    /\ PageFresh
    /\ argusBackend \in SocketStates
    /\ messageQueue \in {NoQueue, [defined |-> TRUE, items |-> <<>>]}
    /\ now = 0

NextChat ==
    \/ Command
    \/ SocketChange

SpecChat == InitChat /\ [][NextChat]_vars

(***************************************************************************)
(* The panels and the taskbar (src/renderer.js, lines 126-387).            *)
(***************************************************************************)
\* items the taskbar holds at most in one run
MaxItems == 4

\* the places a drag can take a panel to: left and top after the snapping
DragTargets == { <<"10px", "70px">>, <<"400px", "300px">> }

\* the position of property name in a style, 0 if it is not set
DeclIndex(style, name) ==
    IF \E i \in DOMAIN style : style[i][1] = name
    THEN CHOOSE i \in DOMAIN style : style[i][1] = name
    ELSE 0

\* element.style.name = value: the declaration is replaced where it stands
\* or added at the end; the empty value removes it
SetProperty(style, name, value) ==
    LET i == DeclIndex(style, name) IN
    IF value = ""
    THEN (IF i = 0 THEN style ELSE Without(style, i))
    ELSE IF i = 0 THEN Append(style, <<name, value>>)
         ELSE [style EXCEPT ![i] = <<name, value>>]

\* reading style.cssText: the declarations as text, "name: value;" each
RECURSIVE CssText(_)
CssText(style) ==
    IF style = <<>> THEN <<>>
    ELSE <<style[1][1], ":", style[1][2], ";">> \o CssText(Tail(style))

\* assigning style.cssText: the text is parsed back into declarations
RECURSIVE ParseCss(_)
ParseCss(text) ==
    IF Len(text) < 4 THEN <<>>
    ELSE <<<<text[1], text[3]>>>> \o ParseCss(SubSeq(text, 5, Len(text)))

\* bringToFront: every panel gets zIndex 10 + its index, the panel itself
\* 10 + the number of panels
bringToFront(ps, panel) ==
    [p \in PanelIds |->
        [ps[p] EXCEPT !.style =
            SetProperty(@, "z-index",
                        IF p = panel THEN ToString(10 + NumPanels)
                        ELSE ToString(10 + (p - 1)))]]

\* addToTaskbar: the taskbar is shown and gets a new item for the panel
addToTaskbar(panel) ==
    [display |-> "flex", children |-> Append(taskbar.children, panel)]

\* minimizePanel
minimizePanel(panel) ==
    /\ panels' = [panels EXCEPT ![panel].isMinimized = TRUE,
                                ![panel].classList = @ \cup {"minimized"}]
    /\ taskbar' = addToTaskbar(panel)
    /\ UNCHANGED dragState

\* restorePanel
restorePanel(ps, panel) ==
    bringToFront([ps EXCEPT ![panel].isMinimized = FALSE,
                            ![panel].classList = @ \ {"minimized"}], panel)

\* toggleMaximize on a maximised panel that puts nothing back
Restored_Keep(st) == st.style

\* the inline style toggleMaximize leaves on a maximised panel
Restored(st) ==
    IF st.savedState # <<>> THEN ParseCss(st.savedState) ELSE st.style

\* toggleMaximize
toggleMaximize(st) ==
    IF st.isMaximized
    THEN [st EXCEPT !.classList = @ \ {"maximized"},
                    !.style = Restored(st),
                    !.isMaximized = FALSE]
    ELSE [st EXCEPT !.savedState = CssText(st.style),
                    !.classList = @ \cup {"maximized"},
                    !.isMaximized = TRUE]

\* startDrag goes on past its second guard
CanDrag(st) == ~st.isMaximized

\* a click on the minimize button of a panel.  A click comes after a
\* mouseup, which ends a drag.
MinimizeButton(panel) ==
    /\ dragState = <<>>
    /\ Len(taskbar.children) < MaxItems
    /\ minimizePanel(panel)
    /\ UNCHANGED <<engineVars, handVars, voiceVars, chatVars, gestureVars,
                   viewerVars>>

\* document.querySelector('.panel:not(.minimized)'): the first panel of the
\* page that is not minimised, 0 if there is none
ActivePanel ==
    IF \E p \in PanelIds : "minimized" \notin panels[p].classList
    THEN CHOOSE p \in PanelIds :
            /\ "minimized" \notin panels[p].classList
            /\ \A q \in PanelIds :
                  q < p => "minimized" \in panels[q].classList
    ELSE 0

\* the push gesture, when handleGesture acts on it: the active panel, if
\* there is one, is minimised
PushGesture ==
    /\ dragState = <<>>
    /\ Len(taskbar.children) < MaxItems
    /\ ActivePanel # 0
    /\ minimizePanel(ActivePanel)
    /\ UNCHANGED <<engineVars, handVars, voiceVars, chatVars, gestureVars,
                   viewerVars>>

\* a click on the k-th item of the taskbar: its panel is restored, the item
\* is removed, and a taskbar without items is hidden
TaskbarClick(k) ==
    /\ dragState = <<>>
    /\ panels' = restorePanel(panels, taskbar.children[k])
    /\ LET rest == Without(taskbar.children, k) IN
         taskbar' = [display |-> IF rest = <<>> THEN "none" ELSE taskbar.display,
                     children |-> rest]
    /\ UNCHANGED dragState
    /\ UNCHANGED <<engineVars, handVars, voiceVars, chatVars, gestureVars,
                   viewerVars>>

\* a click on the maximize button of a panel
MaximizeButton(panel) ==
    /\ dragState = <<>>
    /\ panels' = [panels EXCEPT ![panel] = toggleMaximize(@)]
    /\ UNCHANGED <<taskbar, dragState>>
    /\ UNCHANGED <<engineVars, handVars, voiceVars, chatVars, gestureVars,
                   viewerVars>>

\* mousedown on the header of a panel: startDrag, and then the panel's own
\* mousedown listener, bringToFront
HeaderMouseDown(panel) ==
    /\ dragState = <<>>
    /\ IF CanDrag(panels[panel])
       THEN /\ dragState' = <<[panel |-> panel]>>
            /\ panels' = bringToFront(
                   [panels EXCEPT ![panel].style =
                       SetProperty(@, "cursor", "grabbing")], panel)
       ELSE /\ dragState' = dragState
            /\ panels' = bringToFront(panels, panel)
    /\ UNCHANGED taskbar
    /\ UNCHANGED <<engineVars, handVars, voiceVars, chatVars, gestureVars,
                   viewerVars>>

\* onDragMove
onDragMove ==
    /\ dragState # <<>>
    /\ \E to \in DragTargets :
          panels' = [panels EXCEPT ![dragState[1].panel].style =
              SetProperty(SetProperty(SetProperty(SetProperty(@,
                  "left", to[1]), "top", to[2]), "right", "auto"),
                  "bottom", "auto")]
    /\ UNCHANGED <<taskbar, dragState>>
    /\ UNCHANGED <<engineVars, handVars, voiceVars, chatVars, gestureVars,
                   viewerVars>>

\* onDragEnd
onDragEnd ==
    /\ dragState # <<>>
    /\ panels' = [panels EXCEPT ![dragState[1].panel].style =
                      SetProperty(@, "cursor", "")]
    /\ dragState' = <<>>
    /\ UNCHANGED taskbar
    /\ UNCHANGED <<engineVars, handVars, voiceVars, chatVars, gestureVars,
                   viewerVars>>

\* the user minimises panels and restores them from the taskbar
NextTaskbar ==
    \/ \E panel \in PanelIds : MinimizeButton(panel)
    \/ PushGesture
    \/ \E k \in DOMAIN taskbar.children : TaskbarClick(k)

SpecTaskbar == InitPage /\ [][NextTaskbar]_vars

\* the user maximises panels, restores them and drags them
NextMaximize ==
    \/ \E panel \in PanelIds : MaximizeButton(panel)
    \/ \E panel \in PanelIds : HeaderMouseDown(panel)
    \/ onDragMove
    \/ onDragEnd

SpecMaximize == InitPage /\ [][NextMaximize]_vars

(***************************************************************************)
(* Gestures (src/unnamed/part_000, lines 309-393).                         *)
(***************************************************************************)
\* ms between gestures
gestureCooldown == 500

\* Date.now() when the page has loaded, and what it advances by
Epoch == 1000
TimeStep == 250

\* the last reading of the clock in one run
MaxClock == 2000

\* handleGesture calls in one run
MaxGestures == 4

\* the gestures handed to handleGesture
Gestures == {"fist", "thumbs_up", "wave", "push"}

\* the gesture falls in the cooldown of the last one acted on
InCooldown_Never(t, last) == FALSE

\* now - lastGestureTime < gestureCooldown
InCooldown(t, last) == t - last < gestureCooldown

\* the switch of handleGesture
GestureAction(gesture) ==
    /\ IF gesture = "thumbs_up"
       THEN sendMessage("yes")
       ELSE UNCHANGED chatVars
    /\ IF gesture = "fist" /\ isListening
       THEN stopVoiceInput /\ UNCHANGED voiceHeld
       ELSE IF gesture = "wave"
       THEN /\ voiceStarts' = voiceStarts + 1
            /\ UNCHANGED <<mediaRecorder, recorders, isListening, voiceHeld>>
       ELSE UNCHANGED voiceVars
    /\ IF gesture = "push" /\ ActivePanel # 0
       THEN minimizePanel(ActivePanel)
       ELSE UNCHANGED panelVars

\* handleGesture: a gesture in the cooldown is dropped; any other is noted
\* as the last one and acted on
handleGesture(gesture) ==
    /\ Len(performed) < MaxGestures
    /\ IF InCooldown(now, lastGestureTime)
       THEN /\ performed' = Append(performed,
                    [gesture |-> gesture, at |-> now, acted |-> FALSE])
            /\ UNCHANGED <<lastGestureTime, chatVars, voiceVars, panelVars>>
       ELSE /\ lastGestureTime' = now
            /\ performed' = Append(performed,
                    [gesture |-> gesture, at |-> now, acted |-> TRUE])
            /\ GestureAction(gesture)
    /\ UNCHANGED <<now, engineVars, handVars, viewerVars>>

\* time passes
ClockTick ==
    /\ now < MaxClock
    /\ now' = now + TimeStep
    /\ UNCHANGED <<lastGestureTime, performed>>
    /\ UNCHANGED <<engineVars, handVars, voiceVars, chatVars, panelVars,
                   viewerVars>>

InitGesture ==
    /\ EngineIdle
    /\ PageFresh
    /\ argusBackend \in {"undefined", "OPEN"}
    /\ messageQueue = NoQueue
    /\ now = Epoch

NextGesture ==
    \/ \E gesture \in Gestures : handleGesture(gesture)
    \/ ClockTick

SpecGesture == InitGesture /\ [][NextGesture]_vars

(***************************************************************************)
(* The 3D viewer (src/three-viewport.js, lines 1-165).                     *)
(***************************************************************************)
\* initialize3DViewer calls in one run
MaxViewerCalls == 5

\* frames one render loop draws in one run
MaxFrames == 4

\* animate3D, invoked for loop with frame frames drawn: it returns at its
\* guard when the flag is down; otherwise it asks for the next animation
\* frame and renders.  The value is the callbacks it leaves scheduled.
animate3D(active, loop, frame) ==
    IF ~active THEN <<>> ELSE <<[loop |-> loop, frame |-> frame + 1]>>

\* initialize3DViewer: setup3DScene invokes animate3D (line 115) before the
\* flag is raised (line 38)
initialize3DViewer ==
    /\ viewerCalls < MaxViewerCalls
    /\ viewerCalls' = viewerCalls + 1
    /\ animationFrames' =
         animationFrames \o animate3D(viewportActive, viewerCalls + 1, 0)
    /\ viewportActive' = TRUE
    /\ UNCHANGED <<engineVars, handVars, voiceVars, chatVars, panelVars,
                   gestureVars>>

\* the browser runs the i-th scheduled callback
AnimationFrame(i) ==
    LET c == animationFrames[i] IN
    /\ c.frame < MaxFrames
    /\ animationFrames' =
         SubSeq(animationFrames, 1, i - 1)
         \o animate3D(viewportActive, c.loop, c.frame)
         \o SubSeq(animationFrames, i + 1, Len(animationFrames))
    /\ UNCHANGED <<viewportActive, viewerCalls>>
    /\ UNCHANGED <<engineVars, handVars, voiceVars, chatVars, panelVars,
                   gestureVars>>

NextViewer ==
    \/ initialize3DViewer
    \/ \E i \in DOMAIN animationFrames : AnimationFrame(i)

SpecViewer == InitPage /\ [][NextViewer]_vars

(***************************************************************************)
(* Vocabulary of the properties.                                           *)
(***************************************************************************)
\* the worker of job j has ended and the transfer did not succeed
JobFailed(j) ==
    j.st = "done" /\ (~j.resp.handle \/ j.resp.res # "CURLE_OK")

\* the worker of job j has ended in a transport error of curl_easy_perform
TransportError(j) ==
    j.st = "done" /\ j.resp.handle /\ j.resp.res \in CurlErrors

\* the worker of job j has ended after a completed exchange
JobSucceeded(j) ==
    j.st = "done" /\ j.resp.handle /\ j.resp.res = "CURLE_OK"

\* the elements of a sequence
Range(s) == {s[i] : i \in DOMAIN s}

\* no element occurs twice
Distinct(s) == \A i, j \in DOMAIN s : i # j => s[i] # s[j]

\* parallel_scrape is past its parallel_for_each
PastJoin == pc \in {"collect", "returned"}

\* parallel_sherlock is past its parallel_for_each
ProbePastJoin == ppc \in {"collect", "returned"}

\* a job was run at most once and written at most once, not written before
\* it was run, and run and written exactly once when its dispatch has returned
RunOnce(j, joined) ==
    /\ j.runs <= 1
    /\ j.writes <= 1
    /\ j.writes <= j.runs
    /\ (j.st = "unstarted") = (j.runs = 0)
    /\ (j.st = "done") = (j.writes = 1)
    /\ joined => j.runs = 1 /\ j.writes = 1

\* the header-only exchange of job j completed with status 200
Answered200(j) == JobSucceeded(j) /\ j.resp.http_code = 200

\* some step of a harvest is enabled: a step of its parallel_scrape, the
\* step after it, or, inside the loop over the map, its next turn or its end
HarvestCanStep ==
    \/ hpc = "process" /\ it <= Cardinality(DOMAIN scraped_html_map)
    \/ ENABLED (\/ HarvestBuild
                \/ Build
                \/ \E i \in DOMAIN jobs : ScrapeStart(i)
                \/ \E i \in DOMAIN jobs : ScrapePerform(i)
                \/ Join
                \/ Collect
                \/ HarvestRegex)

(***************************************************************************)
(* C1.  parallel_scrape returns only after every submitted job has an      *)
(* outcome: whenever the call is past its parallel_for_each there is one   *)
(* job per submitted url and every one of them is done and written; the    *)
(* map the caller sees is empty until the return and then has a key for    *)
(* every job.                                                              *)
(***************************************************************************)
C1_ReturnsAfterEveryOutcome ==
    /\ PastJoin =>
         /\ Len(jobs) = Len(urls)
         /\ \A i \in DOMAIN jobs : jobs[i].st = "done" /\ jobs[i].writes >= 1
    /\ pc # "returned" => results = EmptyMap
    /\ pc = "returned" => \A i \in DOMAIN jobs : jobs[i].url \in DOMAIN results

\* the call has returned from a batch in which one job failed and one succeeded
C1_Witness ==
    /\ pc = "returned"
    /\ \E i, j \in DOMAIN jobs : JobFailed(jobs[i]) /\ JobSucceeded(jobs[j])

(***************************************************************************)
(* C2.  In both dispatches every job is run by one worker once and gets    *)
(* one outcome: no job is run or written twice, a job that was not started *)
(* was not written, there is one job per submitted item, and once the      *)
(* dispatch has returned every job was run exactly once and written        *)
(* exactly once.                                                           *)
(***************************************************************************)
C2_ExactlyOneOutcomePerJob ==
    /\ \A i \in DOMAIN jobs : RunOnce(jobs[i], PastJoin)
    /\ \A i \in DOMAIN sjobs : RunOnce(sjobs[i], ProbePastJoin)
    /\ pc \in {"dispatch", "collect", "returned"} => Len(jobs) = Len(urls)
    /\ ppc \in {"dispatch", "collect", "returned"} =>
         Len(sjobs) = Len(sites_to_check)

\* a probe of at least two sites has returned
C2_Witness ==
    /\ ppc = "returned"
    /\ Len(sjobs) >= 2
    /\ \A i \in DOMAIN sjobs : sjobs[i].runs = 1 /\ sjobs[i].writes = 1

(***************************************************************************)
(* C3.  Cardinality preservation: when the urls handed to parallel_scrape  *)
(* are pairwise distinct, the returned map has exactly one entry per url   *)
(* and its keys are the urls, whatever mix of fetches succeeded or failed. *)
(***************************************************************************)
C3_CardinalityPreserved ==
    (pc = "returned" /\ Distinct(urls)) =>
        /\ DOMAIN results = Range(urls)
        /\ Cardinality(DOMAIN results) = Len(urls)

\* three distinct urls, one fetch failed and one succeeded
C3_Witness ==
    /\ pc = "returned"
    /\ mode = "scrape"
    /\ Distinct(urls)
    /\ Len(urls) = 3
    /\ \E i, j \in DOMAIN jobs : JobFailed(jobs[i]) /\ JobSucceeded(jobs[j])

(***************************************************************************)
(* C4.  Failure isolation in parallel_scrape: whatever the other jobs did, *)
(* an unstarted job can start as soon as a thread is free, a running job   *)
(* can receive every answer of the transport, the outcome written to a job *)
(* is the one of its own answer, and the call never leaves the dispatch    *)
(* with a job unfinished.                                                  *)
(***************************************************************************)
C4_FailureIsolation ==
    /\ pc = "dispatch" =>
         \A i \in DOMAIN jobs :
            /\ (jobs[i].st = "unstarted"
                /\ Cardinality({k \in DOMAIN jobs : jobs[k].st = "running"})
                     < NumThreads)
               => ENABLED ScrapeStart(i)
            /\ jobs[i].st = "running" =>
                 \A r \in {a \in LibcurlOutcomes(jobs[i].url) : a.handle} :
                    ENABLED ScrapePerformWith(i, r)
    /\ \A i \in DOMAIN jobs :
         jobs[i].st = "done" =>
            jobs[i].result_html = scrape_url_result(jobs[i].resp)
    /\ PastJoin => \A i \in DOMAIN jobs : jobs[i].st = "done"

\* one job timed out, and a job after it in the list still got its page
C4_Witness ==
    /\ pc = "returned"
    /\ \E i, j \in DOMAIN jobs :
         /\ i < j
         /\ jobs[i].resp.res = "CURLE_OPERATION_TIMEDOUT"
         /\ JobSucceeded(jobs[j])
         /\ jobs[j].result_html # <<>>
         /\ results[jobs[j].url] = jobs[j].resp.body

(***************************************************************************)
(* C5.  A fetch worker never raises: a job is unstarted, running or done,  *)
(* and a worker that met any failure (no handle, or a transport error) has *)
(* ended with its outcome stored in the job: the error text for scrape_url,*)
(* found = false for check_sherlock_url.  The only exception of a probe    *)
(* call leaves before any worker has run.                                  *)
(***************************************************************************)
C5_WorkerNeverRaises ==
    /\ \A i \in DOMAIN jobs :
         /\ jobs[i].st \in {"unstarted", "running", "done"}
         /\ jobs[i].resp # NoResp =>
              /\ jobs[i].st = "done"
              /\ jobs[i].writes = 1
         /\ (jobs[i].resp # NoResp /\ jobs[i].resp.res # "CURLE_OK") =>
              jobs[i].result_html \in
                 {CURL_INIT_ERROR} \cup
                 {CURL_ERROR_PREFIX \o curl_easy_strerror(e) : e \in CurlErrors}
    /\ \A i \in DOMAIN sjobs :
         /\ sjobs[i].st \in {"unstarted", "running", "done"}
         /\ sjobs[i].resp # NoResp =>
              /\ sjobs[i].st = "done"
              /\ sjobs[i].writes = 1
         /\ (sjobs[i].resp # NoResp /\ sjobs[i].resp.res # "CURLE_OK") =>
              sjobs[i].found = FALSE
    /\ ppc = "threw" => sjobs = <<>>
    /\ mode = "scrape" => pc \in {"build", "dispatch", "collect", "returned"}

\* both kinds of failure have happened in one batch of scrape_url
C5_Witness ==
    /\ pc = "dispatch"
    /\ \E i, j \in DOMAIN jobs :
         /\ jobs[i].resp = InitFailed
         /\ TransportError(jobs[j])

(***************************************************************************)
(* C6.  Every value of the map parallel_scrape returns is the body of a    *)
(* successful transfer for that url or begins with CURL_ERROR.             *)
(***************************************************************************)
C6_BodyOrSentinel ==
    pc = "returned" =>
        \A k \in DOMAIN results :
            \/ \E i \in DOMAIN jobs :
                 /\ jobs[i].url = k
                 /\ JobSucceeded(jobs[i])
                 /\ results[k] = jobs[i].resp.body
            \/ OccursAt(results[k], CURL_ERROR, 1)

(***************************************************************************)
(* C7.  Every failed fetch is recognised by parallel_harvester and left    *)
(* out of extraction: the html of a failed job never reaches the two       *)
(* pattern scans.                                                          *)
(***************************************************************************)
C7_FailuresExcluded ==
    \A i \in DOMAIN jobs : JobFailed(jobs[i]) => jobs[i].url \notin scanned

(***************************************************************************)
(* C8.  parallel_sherlock returns exactly the concrete urls whose          *)
(* header-only exchange completed with status 200: each such job's url is  *)
(* in the result, every url of the result belongs to such a job, and the   *)
(* result has one element per such job (so none when no site answers 200). *)
(***************************************************************************)
C8_Exactly200 ==
    ppc = "returned" =>
        LET hits == {i \in DOMAIN sjobs : Answered200(sjobs[i])}
            concrete(i) == ConcreteUrl(sites_to_check[i], username)
        IN  /\ \A i \in hits : concrete(i) \in Range(found_urls)
            /\ \A u \in Range(found_urls) : \E i \in hits : concrete(i) = u
            /\ Len(found_urls) = Cardinality(hits)

\* one site answered 200, one 404 and one not at all
C8_Witness ==
    /\ ppc = "returned"
    /\ Len(found_urls) = 1
    /\ \E i, j, k \in DOMAIN sjobs :
         /\ Answered200(sjobs[i])
         /\ JobSucceeded(sjobs[j]) /\ sjobs[j].resp.http_code = 404
         /\ TransportError(sjobs[k])

(***************************************************************************)
(* C9.  A site template without the placeholder does not make the probe    *)
(* throw: the call is not aborted and every well-formed site gets its job. *)
(***************************************************************************)
C9_MalformedTemplateSkipped ==
    /\ ppc # "threw"
    /\ ppc \in {"dispatch", "collect", "returned"} =>
         \A i \in DOMAIN sites_to_check :
            ~Malformed(sites_to_check[i]) =>
               \E j \in DOMAIN sjobs : sjobs[j].site_name = sites_to_check[i]

(***************************************************************************)
(* C10.  Transport errors never fail a probe or a harvest.  A probe throws *)
(* only for a template without placeholder and before any job exists; a    *)
(* harvest throws only when the pattern built from the domain is           *)
(* ill-formed; a call that has neither returned nor thrown can always take *)
(* a step; and the result is built only from jobs without a transport      *)
(* error: every found url belongs to a job whose exchange completed, and   *)
(* no html of a job that ended in a transport error reached the scans.     *)
(***************************************************************************)
C10_BestEffortResult ==
    /\ ppc = "threw" =>
         /\ sjobs = <<>>
         /\ \E i \in DOMAIN sites_to_check : Malformed(sites_to_check[i])
    /\ hpc = "threw" => ~RegexCompiles(domain)
    /\ (mode = "probe" /\ ppc \notin {"returned", "threw"}) => ENABLED Next
    /\ (mode = "harvest" /\ hpc \notin {"returned", "threw"}) => HarvestCanStep
    /\ ppc = "returned" =>
         \A u \in Range(found_urls) :
            \E i \in DOMAIN sjobs : sjobs[i].url = u /\ JobSucceeded(sjobs[i])
    /\ mode = "harvest" =>
         \A i \in DOMAIN jobs :
            TransportError(jobs[i]) => jobs[i].url \notin scanned

\* a harvest has returned emails although one of its fetches timed out
C10_Witness ==
    /\ hpc = "returned"
    /\ final_results.emails # <<>>
    /\ \E i, j \in DOMAIN jobs :
         /\ TransportError(jobs[i])
         /\ jobs[j].url \in scanned

(***************************************************************************)
(* Vocabulary of the properties of the scans.                              *)
(***************************************************************************)
\* the sequences of a sequence, one after the other
RECURSIVE Flatten(_)
Flatten(ss) == IF ss = <<>> THEN <<>> ELSE Head(ss) \o Flatten(Tail(ss))

\* the text m contains the target domain
InTargetDomain(m) == Contains(m, domain)

\* the keys whose html reached the scans, in the order the loop visits them
ScannedKeys == SortedKeys(scanned)

\* the matches of the email pattern in the body stored under key k
EmailMatches(k) == EmailScan(scraped_html_map[k], 1)

\* the matches of the subdomain pattern in the body stored under key k
SubdomainMatches(k) == SubdomainScan(scraped_html_map[k], 1, domain)

\* the addresses of a page
BobAtExample == Sub(ExamplePage, 15, 29)
AdminAtExample == Sub(ExamplePage, 34, 50)

(***************************************************************************)
(* C11.  The emails of a harvest are the matches of the email pattern that *)
(* contain the target domain: a match found in a scanned body is among the *)
(* emails if and only if its text contains the domain, every email is such *)
(* a match, and the emails are the retained matches of the scanned bodies, *)
(* body after body, each body's from left to right.                        *)
(***************************************************************************)
C11_EmailsFilteredInOrder ==
    hpc \in {"process", "returned"} =>
       /\ \A k \in scanned :
            \A m \in Range(EmailMatches(k)) :
               (m \in Range(final_results.emails)) <=> InTargetDomain(m)
       /\ \A m \in Range(final_results.emails) :
            \E k \in scanned : m \in Range(EmailMatches(k))
       /\ final_results.emails =
            Flatten([n \in 1..Len(ScannedKeys) |->
                       SelectSeq(EmailMatches(ScannedKeys[n]), InTargetDomain)])

\* a harvest of example.com has returned after scanning the page with bob's
\* and admin's addresses and the page with addresses of other domains: the
\* emails are bob's, then admin's
C11_Witness ==
    /\ hpc = "returned"
    /\ \E k \in scanned : scraped_html_map[k] = ExamplePage
    /\ \E k \in scanned : scraped_html_map[k] = MixedPage
    /\ final_results.emails = <<BobAtExample, AdminAtExample>>

(***************************************************************************)
(* C12.  Every match of the subdomain pattern in a scanned body is         *)
(* appended to the subdomains, with no filter: the subdomains are the      *)
(* matches of the scanned bodies, body after body, so each body            *)
(* contributes as many entries as it has matches.                          *)
(***************************************************************************)
C12_SubdomainsUnfiltered ==
    hpc \in {"process", "returned"} =>
       /\ final_results.subdomains =
            Flatten([n \in 1..Len(ScannedKeys) |->
                       SubdomainMatches(ScannedKeys[n])])
       /\ \A k \in scanned :
            Range(SubdomainMatches(k)) \subseteq Range(final_results.subdomains)

\* a harvest of e.co has returned after scanning two copies of the page with
\* two host names: the subdomains hold each host name twice
C12_Witness ==
    /\ hpc = "returned"
    /\ \E k1, k2 \in scanned :
         /\ k1 # k2
         /\ scraped_html_map[k1] = MixedPage
         /\ scraped_html_map[k2] = MixedPage
         /\ Len(SubdomainMatches(k1)) > 1
    /\ Len(final_results.subdomains) > Cardinality(Range(final_results.subdomains))

(***************************************************************************)
(* C13.  Duplicate-URL law of parallel_scrape: the returned map has one    *)
(* entry per distinct submitted url, and the value of a url, also of one   *)
(* submitted more than once, is the outcome one of the jobs for that url   *)
(* actually produced.                                                      *)
(***************************************************************************)
C13_DuplicateUrlLaw ==
    pc = "returned" =>
       /\ DOMAIN results = Range(urls)
       /\ \A u \in DOMAIN results :
            \E i \in DOMAIN jobs :
               /\ jobs[i].url = u
               /\ jobs[i].st = "done"
               /\ results[u] = scrape_url_result(jobs[i].resp)

\* the call has returned for a list that names one url twice, whose two jobs
\* ended with different outcomes: the map has one entry, one of the two
C13_Witness ==
    /\ mode = "scrape"
    /\ pc = "returned"
    /\ \E i, j \in DOMAIN jobs :
         /\ i # j
         /\ jobs[i].url = jobs[j].url
         /\ jobs[i].result_html # jobs[j].result_html
         /\ jobs[i].result_html # <<>>
         /\ jobs[j].result_html # <<>>
    /\ Cardinality(DOMAIN results) = 1

(***************************************************************************)
(* C14.  Idempotence of parallel_scrape: against a transport whose outcome *)
(* is a fixed function of the url, a second call on the same list returns  *)
(* a map equal to the first call's, whatever the interleaving of the       *)
(* workers in either call.                                                 *)
(***************************************************************************)
C14_Idempotent ==
    (mode = "scrape" /\ run > 1 /\ pc = "returned") => results = first_results

\* the second call has returned for a list with a repeated url and two urls
\* of different outcomes
C14_Witness ==
    /\ mode = "scrape"
    /\ run > 1
    /\ pc = "returned"
    /\ ~Distinct(urls)
    /\ \E u, v \in DOMAIN results : results[u] # results[v]
    /\ results = first_results

(***************************************************************************)
(* Vocabulary of the properties of time.                                   *)
(***************************************************************************)
\* the server of job j never answers
NeverAnswered(j) == LibcurlOutcomes(j.url) = {Silent}

\* the worker of job j has ended at the timeout with the timeout error
EndedAtTimeout(j) ==
    /\ j.st = "done"
    /\ j.resp = TimedOut
    /\ j.elapsed = CURLOPT_TIMEOUT

(***************************************************************************)
(* C15.  A worker does not hang on a server that never answers: no         *)
(* curl_easy_perform lasts longer than the timeout of five seconds, no     *)
(* worker stays inside curl_easy_perform for ever, and a worker whose      *)
(* server never answers ends when the timeout has elapsed with the error   *)
(* outcome: the timeout text for scrape_url, found = false for             *)
(* check_sherlock_url.                                                     *)
(***************************************************************************)
C15_TimeoutEndsWorker ==
    /\ [](\A i \in DOMAIN jobs :
            /\ jobs[i].elapsed <= CURLOPT_TIMEOUT
            /\ (jobs[i].st = "done" /\ NeverAnswered(jobs[i])) =>
                 /\ EndedAtTimeout(jobs[i])
                 /\ jobs[i].result_html =
                      CURL_ERROR_PREFIX \o
                      curl_easy_strerror("CURLE_OPERATION_TIMEDOUT"))
    /\ [](\A i \in DOMAIN sjobs :
            /\ sjobs[i].elapsed <= CURLOPT_TIMEOUT
            /\ (sjobs[i].st = "done" /\ NeverAnswered(sjobs[i])) =>
                 EndedAtTimeout(sjobs[i]) /\ ~sjobs[i].found)
    /\ <>[](/\ \A i \in DOMAIN jobs : jobs[i].st # "running"
            /\ \A i \in DOMAIN sjobs : sjobs[i].st # "running")

\* the call has returned after a worker whose server never answered ended at
\* the timeout: the map holds the timeout text for its url
C15_Witness ==
    /\ pc = "returned"
    /\ \E i \in DOMAIN jobs :
         /\ NeverAnswered(jobs[i])
         /\ EndedAtTimeout(jobs[i])
         /\ results[jobs[i].url] =
              CURL_ERROR_PREFIX \o curl_easy_strerror("CURLE_OPERATION_TIMEDOUT")

(***************************************************************************)
(* C16.  Given that every worker ends, by an answer or by the timeout, and *)
(* that the pool runs a job whenever a thread is free, every dispatch      *)
(* eventually returns, for every number of jobs up to the bound; the       *)
(* dispatch never ends in another way.                                     *)
(***************************************************************************)
C16_DispatchReturns ==
    /\ (mode = "scrape") => <>(pc = "returned")
    /\ (mode = "probe") => <>(ppc = "returned")
    /\ [](pc \in {"idle", "build", "dispatch", "collect", "returned"})
    /\ [](ppc \in {"idle", "build", "dispatch", "collect", "returned"})

\* a dispatch of more jobs than threads has returned, one of its workers
\* having ended at the timeout
C16_Witness ==
    /\ pc = "returned"
    /\ Len(jobs) > NumThreads
    /\ \E i, j \in DOMAIN jobs :
         /\ EndedAtTimeout(jobs[i])
         /\ JobSucceeded(jobs[j])
         /\ jobs[j].elapsed > 0
    /\ \A i \in DOMAIN jobs : jobs[i].url \in DOMAIN results

(***************************************************************************)
(* Vocabulary of the properties of the workers' writes.                    *)
(***************************************************************************)
\* the slots of job vector js that differ in js2
ChangedSlots(js, js2) ==
    {i \in DOMAIN js : i \notin DOMAIN js2 \/ js2[i] # js[i]}

\* a step inside a dispatch writes at most one slot of the vector, a slot
\* whose worker had not ended, and keeps the identity of every job
OneOpenSlot(js, js2) ==
    /\ DOMAIN js2 = DOMAIN js
    /\ Cardinality(ChangedSlots(js, js2)) <= 1
    /\ \A i \in ChangedSlots(js, js2) :
         js[i].st # "done" /\ js2[i].url = js[i].url

(***************************************************************************)
(* C17.  Under every interleaving the outcome recorded for a job is the    *)
(* one its own worker produced for its own url: job i carries the i-th     *)
(* submitted url and, once done, the outcome of the transport for that     *)
(* url.  The workers share no mutable state: a step inside a dispatch      *)
(* writes one job slot, never the slot of a worker that has ended, and     *)
(* never the results; the results are written only when every worker has   *)
(* ended.                                                                  *)
(***************************************************************************)
C17_OwnSlotOnly ==
    /\ [](\A i \in DOMAIN jobs :
            /\ jobs[i].url = urls[i]
            /\ jobs[i].st = "done" =>
                 /\ jobs[i].resp \in net[urls[i]]
                 /\ jobs[i].result_html = scrape_url_result(jobs[i].resp))
    /\ [](\A i \in DOMAIN sjobs :
            /\ sjobs[i].site_name = sites_to_check[i]
            /\ sjobs[i].st = "done" =>
                 /\ sjobs[i].resp \in net[sjobs[i].url]
                 /\ sjobs[i].found = Answered200(sjobs[i]))
    /\ [][(pc = "dispatch" /\ pc' = "dispatch") =>
             OneOpenSlot(jobs, jobs') /\ results' = results]_vars
    /\ [][(ppc = "dispatch" /\ ppc' = "dispatch") =>
             OneOpenSlot(sjobs, sjobs') /\ found_urls' = found_urls]_vars
    /\ [][results' # results =>
             \A i \in DOMAIN jobs : jobs[i].st = "done"]_vars
    /\ [][found_urls' # found_urls =>
             \A i \in DOMAIN sjobs : sjobs[i].st = "done"]_vars

\* a call for two urls of different outcomes has returned, and the entry of
\* each url is the outcome of its own job
C17_Witness ==
    /\ pc = "returned"
    /\ \E i, j \in DOMAIN jobs :
         /\ i < j
         /\ jobs[i].url # jobs[j].url
         /\ net[jobs[i].url] # net[jobs[j].url]
         /\ results[jobs[i].url] = scrape_url_result(jobs[i].resp)
         /\ results[jobs[j].url] = scrape_url_result(jobs[j].resp)
         /\ results[jobs[i].url] # results[jobs[j].url]

(***************************************************************************)
(* Vocabulary of the properties of the probe's result.                     *)
(***************************************************************************)
\* a completed exchange that answered 404
NotFound404 ==
    [handle |-> TRUE, res |-> "CURLE_OK", body |-> <<>>, http_code |-> 404]

\* the jobs of the run that differs from this one only in that every job
\* that did not answer 200 ended with outcome r
RunWithReason(r) ==
    [i \in DOMAIN sjobs |->
        StoreFound(NewSherlockJob(sites_to_check[i], username),
                   IF Answered200(sjobs[i]) THEN sjobs[i].resp ELSE r)]

(***************************************************************************)
(* C18.  The result of a probe does not reveal why a url was left out:     *)
(* the returned list equals the list of the run in which every job that    *)
(* did not answer 200 got a 404, the list of the run in which each of them *)
(* timed out, and the list of the run in which none of them got a handle,  *)
(* so two runs that differ only in those reasons return the same list.     *)
(***************************************************************************)
C18_ReasonNotRevealed ==
    ppc = "returned" =>
       /\ found_urls = CollectFound(RunWithReason(NotFound404), 1, <<>>)
       /\ found_urls = CollectFound(RunWithReason(TimedOut), 1, <<>>)
       /\ found_urls = CollectFound(RunWithReason(InitFailed), 1, <<>>)

\* a probe has returned in which one job answered 200, one answered 404 and
\* one ended in a transport error
C18_Witness ==
    /\ ppc = "returned"
    /\ \E i, j, k \in DOMAIN sjobs :
         /\ Answered200(sjobs[i])
         /\ JobSucceeded(sjobs[j]) /\ sjobs[j].resp.http_code = 404
         /\ TransportError(sjobs[k])
    /\ Len(found_urls) = 1

(***************************************************************************)
(* C19.  The harvester scans every successfully fetched body: when the     *)
(* harvest has returned, the url of every job whose transfer completed is  *)
(* among the scanned keys, also when the page holds the text CURL_ERROR.   *)
(***************************************************************************)
C19_SuccessfulBodiesScanned ==
    hpc = "returned" =>
       \A i \in DOMAIN jobs : JobSucceeded(jobs[i]) => jobs[i].url \in scanned

FirstPlaceholderAt(t, p) ==
    /\ p + Len(PLACEHOLDER) - 1 <= Len(t)
    /\ SubSeq(t, p, p + Len(PLACEHOLDER) - 1) = PLACEHOLDER
    /\ \A q \in 1..(p - 1) :
         SubSeq(t, q, q + Len(PLACEHOLDER) - 1) # PLACEHOLDER

(***************************************************************************)
(* C21.  For every site template that holds the placeholder the concrete   *)
(* url of its job is the template with the first occurrence of the token   *)
(* {username}, ten characters long, replaced by the candidate identifier:  *)
(* the text before it, and all the text after it with any later            *)
(* occurrence of the token, are those of the template.                     *)
(***************************************************************************)
C21_FirstOccurrenceReplaced ==
    \A i \in DOMAIN sjobs :
       /\ Len(PLACEHOLDER) = PlaceholderLen
       /\ \E p \in 1..Len(sjobs[i].site_name) :
            /\ FirstPlaceholderAt(sjobs[i].site_name, p)
            /\ sjobs[i].url =
                 SubSeq(sjobs[i].site_name, 1, p - 1)
                 \o username
                 \o SubSeq(sjobs[i].site_name, p + Len(PLACEHOLDER),
                           Len(sjobs[i].site_name))

\* a probe has returned for a template that holds the placeholder twice: the
\* url of its job begins with the identifier and still holds the placeholder
C21_Witness ==
    /\ ppc = "returned"
    /\ \E i \in DOMAIN sjobs :
         /\ FirstPlaceholderAt(sjobs[i].site_name, 1)
         /\ SubSeq(sjobs[i].url, 1, Len(username)) = username
         /\ \E q \in 1..(Len(sjobs[i].url) - Len(PLACEHOLDER) + 1) :
              SubSeq(sjobs[i].url, q, q + Len(PLACEHOLDER) - 1) = PLACEHOLDER
         /\ Len(sjobs[i].url) =
              Len(sjobs[i].site_name) - Len(PLACEHOLDER) + Len(username)

(***************************************************************************)
(* Vocabulary of the properties of the order of the results.               *)
(***************************************************************************)
\* the last job of the list that carries url u
LastJobOf(u) ==
    CHOOSE i \in DOMAIN jobs :
       jobs[i].url = u /\ \A k \in DOMAIN jobs : jobs[k].url = u => k <= i

\* job j of a probe was found
IsFound(j) == j.found

(***************************************************************************)
(* C27.  When a url occurs more than once in the input of parallel_scrape, *)
(* the value the returned map holds for it is the outcome of its last      *)
(* occurrence in input order, under every order of completion of the       *)
(* workers.                                                                *)
(***************************************************************************)
C27_LastOccurrenceWins ==
    pc = "returned" =>
       \A i \in DOMAIN urls :
          results[urls[i]] = jobs[LastJobOf(urls[i])].result_html

\* the call has returned for a list that names a url twice, whose first job
\* got a page and whose last job failed: the map holds the error text
C27_Witness ==
    /\ mode = "scrape"
    /\ pc = "returned"
    /\ \E i, j \in DOMAIN jobs :
         /\ i < j
         /\ jobs[i].url = jobs[j].url
         /\ j = LastJobOf(jobs[j].url)
         /\ JobSucceeded(jobs[i])
         /\ JobFailed(jobs[j])
         /\ jobs[i].result_html # jobs[j].result_html
         /\ results[jobs[i].url] = jobs[j].result_html

(***************************************************************************)
(* C28.  The list parallel_sherlock returns holds the urls of the found    *)
(* jobs in the order of the job list, which is the order of the sites      *)
(* when the jobs were built: it is the job list with the jobs not found    *)
(* left out, under every order of completion of the workers.               *)
(***************************************************************************)
C28_SubmissionOrder ==
    ppc = "returned" =>
       /\ Len(found_urls) = Len(SelectSeq(sjobs, IsFound))
       /\ \A n \in DOMAIN found_urls :
            found_urls[n] = SelectSeq(sjobs, IsFound)[n].url
       /\ Len(sjobs) = Len(sites_to_check)
       /\ \A i \in DOMAIN sjobs : sjobs[i].site_name = sites_to_check[i]

\* a probe has returned in which the first and the last job were found, for
\* different urls, and a job between them was not
C28_Witness ==
    /\ ppc = "returned"
    /\ \E i, j, k \in DOMAIN sjobs :
         /\ i < j /\ j < k
         /\ sjobs[i].found /\ ~sjobs[j].found /\ sjobs[k].found
         /\ sjobs[i].url # sjobs[k].url
         /\ found_urls = <<sjobs[i].url, sjobs[k].url>>

(***************************************************************************)
(* Vocabulary of the frame of a worker.                                    *)
(***************************************************************************)
\* what a consumer put into scrape job j when it created it
ScrapeIdentity(j) == j.url

\* what a consumer put into probe job j when it created it
ProbeIdentity(j) == <<j.site_name, j.url>>

(***************************************************************************)
(* C26.  Once a job is in the hands of the dispatcher no step changes      *)
(* anything of it but its outcome: the url of a job, and the site name of  *)
(* a probe job, stay what they were when the job was created, so at the    *)
(* merge the i-th job still carries the i-th url of the input; and no step *)
(* of a call changes the list of urls, the list of sites or the identifier *)
(* the caller passed.                                                      *)
(***************************************************************************)
C26_OnlyOutcomeChanges ==
    /\ [][\A i \in (DOMAIN jobs) \cap (DOMAIN jobs') :
             ScrapeIdentity(jobs'[i]) = ScrapeIdentity(jobs[i])]_vars
    /\ [][\A i \in (DOMAIN sjobs) \cap (DOMAIN sjobs') :
             ProbeIdentity(sjobs'[i]) = ProbeIdentity(sjobs[i])]_vars
    /\ [][pc # "idle" => urls' = urls]_vars
    /\ [][sites_to_check' = sites_to_check /\ username' = username]_vars
    /\ [](PastJoin =>
            /\ Len(jobs) = Len(urls)
            /\ \A i \in DOMAIN jobs : jobs[i].url = urls[i])
    /\ [](ProbePastJoin =>
            /\ Len(sjobs) = Len(sites_to_check)
            /\ \A i \in DOMAIN sjobs : sjobs[i].site_name = sites_to_check[i])

\* a call has returned whose jobs ended with different outcomes, each still
\* carrying its url of the input
C26_Witness ==
    /\ pc = "returned"
    /\ Len(jobs) = MaxUrls
    /\ \E i, j \in DOMAIN jobs :
         /\ jobs[i].result_html # jobs[j].result_html
         /\ jobs[i].url = urls[i]
         /\ jobs[j].url = urls[j]
         /\ urls[i] # urls[j]

(***************************************************************************)
(* Vocabulary of the properties of a harvest.                              *)
(***************************************************************************)
\* how often t occurs in sequence q
Count(t, q) == Cardinality({i \in DOMAIN q : q[i] = t})

\* sequence a is the beginning of sequence b
IsPrefix(a, b) == Len(a) <= Len(b) /\ SubSeq(b, 1, Len(a)) = a

\* every match of the email pattern in the scanned bodies, repeats included
AllEmailMatches ==
    Flatten([n \in 1..Len(ScannedKeys) |-> EmailMatches(ScannedKeys[n])])

\* every match of the subdomain pattern in the scanned bodies, repeats included
AllSubdomainMatches ==
    Flatten([n \in 1..Len(ScannedKeys) |-> SubdomainMatches(ScannedKeys[n])])

\* the number of queries of a harvest
NumQueries == 3

(***************************************************************************)
(* C22.  For every domain parallel_harvester hands exactly three urls to   *)
(* parallel_scrape, each holding the domain, and the three are pairwise    *)
(* distinct: there are three jobs, and the map the harvester processes has *)
(* exactly three entries.                                                  *)
(***************************************************************************)
C22_ThreeDistinctQueries ==
    /\ (mode = "harvest" /\ hpc \notin {"idle", "build"}) =>
          /\ Len(urls) = NumQueries
          /\ Distinct(urls)
          /\ \A i \in DOMAIN urls : Contains(urls[i], domain)
    /\ (mode = "harvest" /\ pc \in {"dispatch", "collect", "returned"}) =>
          Len(jobs) = NumQueries
    /\ hpc \in {"process", "returned", "threw"} =>
          Cardinality(DOMAIN scraped_html_map) = NumQueries

\* a harvest has returned after processing the three entries of its map
C22_Witness ==
    /\ hpc = "returned"
    /\ it = NumQueries
    /\ Cardinality(DOMAIN scraped_html_map) = NumQueries
    /\ Cardinality(scanned) = NumQueries

(***************************************************************************)
(* C23.  Every query of a harvest is URL-encoded before it is put into the *)
(* search url: a url handed to parallel_scrape holds no raw space and no   *)
(* raw double quote, and ends with the result-count parameter.             *)
(***************************************************************************)
C23_QueriesUrlEncoded ==
    mode = "harvest" =>
       \A i \in DOMAIN urls :
          /\ " " \notin Range(urls[i])
          /\ "\"" \notin Range(urls[i])
          /\ SubSeq(urls[i], Len(urls[i]) - Len(SEARCH_SUFFIX) + 1, Len(urls[i]))
               = SEARCH_SUFFIX

(***************************************************************************)
(* C24.  parallel_harvester never removes duplicates: during the           *)
(* extraction the emails and the subdomains only grow at their end, and a  *)
(* token occurs in the subdomains as often as the subdomain pattern        *)
(* matched it in the scanned bodies, and an address of the target domain   *)
(* occurs in the emails as often as the email pattern matched it.          *)
(***************************************************************************)
C24_NoDeduplication ==
    /\ [][hpc = "process" =>
             /\ IsPrefix(final_results.emails, final_results'.emails)
             /\ IsPrefix(final_results.subdomains, final_results'.subdomains)]_vars
    /\ [](hpc \in {"process", "returned"} =>
            /\ \A t \in Range(AllSubdomainMatches)
                        \cup Range(final_results.subdomains) :
                 Count(t, final_results.subdomains)
                    = Count(t, AllSubdomainMatches)
            /\ \A t \in Range(AllEmailMatches) \cup Range(final_results.emails) :
                 Count(t, final_results.emails)
                    = IF InTargetDomain(t) THEN Count(t, AllEmailMatches) ELSE 0)

\* a harvest has returned after scanning the same page under three keys: an
\* address and a host name of the page are three times in the result
C24_Witness ==
    /\ hpc = "returned"
    /\ Cardinality(scanned) = NumQueries
    /\ \E t \in Range(final_results.emails) :
         Count(t, final_results.emails) = NumQueries
    /\ \E t \in Range(final_results.subdomains) :
         Count(t, final_results.subdomains) = NumQueries

(***************************************************************************)
(* C29.  parallel_harvester is deterministic in the order of its output:   *)
(* the bodies are scanned in ascending order of their key in the map, and  *)
(* against a transport whose outcome is a fixed function of the url a      *)
(* second call on the same domain returns the emails and the subdomains of *)
(* the first, under every order of completion of the workers.              *)
(***************************************************************************)
C29_DeterministicOrder ==
    /\ [][\A k \in scanned' \ scanned : \A o \in scanned : LexLess(o, k)]_vars
    /\ []((run > 1 /\ hpc = "returned") => final_results = first_harvest)

\* the second harvest of e.co has returned the result of the first, whose
\* first address is of the page of the second url handed to parallel_scrape
C29_Witness ==
    /\ run > 1
    /\ hpc = "returned"
    /\ final_results = first_harvest
    /\ scraped_html_map[urls[1]] = MixedPage
    /\ scraped_html_map[urls[2]] = ExamplePage
    /\ Len(final_results.emails) > 1
    /\ final_results.emails[1] = BobAtExample

(***************************************************************************)
(* C30.  parallel_harvester returns a HarvesterResults for every domain:   *)
(* building the subdomain pattern from the domain text never ends the call *)
(* in an error, also for a domain with a parenthesis that is not closed.   *)
(***************************************************************************)
C30_PatternNeverFails == hpc # "threw"

(***************************************************************************)
(* Vocabulary of the properties of the load.                               *)
(***************************************************************************)
\* the site file is missing or is not JSON
BadSiteFile == site_file.state \in {"missing", "unparsable"}

\* the probe has ended in the exception of the load, with no job built
ProbeFailedAtLoad ==
    /\ ppc = "load_threw"
    /\ sites_to_check = <<>>
    /\ sjobs = <<>>
    /\ found_urls = <<>>

(***************************************************************************)
(* C25.  When the site-list file is missing or unparsable the probe ends   *)
(* in a hard error before any job is built or dispatched, and only the     *)
(* probe: with the same file a bulk scrape returns its map with an entry   *)
(* for every url, and a harvest always has its next step until it ends,    *)
(* where nothing but an ill-formed pattern stops it.                       *)
(***************************************************************************)
C25_LoadErrorFailsProbeOnly ==
    /\ [](  (mode = "probe" /\ BadSiteFile)
            => (ppc = "load" /\ sjobs = <<>>) \/ ProbeFailedAtLoad)
    /\ (mode = "probe" /\ BadSiteFile) => <>[]ProbeFailedAtLoad
    /\ [](ppc = "load_threw" => BadSiteFile)
    /\ (mode = "scrape" /\ BadSiteFile)
          => <>[](pc = "returned" /\ DOMAIN results = Range(urls))
    /\ [](  (mode = "harvest" /\ BadSiteFile /\ hpc \notin {"returned", "threw"})
            => HarvestCanStep)
    /\ [](hpc = "threw" => "(" \in Range(domain))

\* a probe has ended in the exception of the load of a file that is not
\* JSON, with no job built
C25_Witness ==
    /\ mode = "probe"
    /\ site_file.state = "unparsable"
    /\ ProbeFailedAtLoad

(***************************************************************************)
(* C31.  After stopHandTracking no detectHands invocation goes past its    *)
(* guard until tracking is started again: an invocation that goes past the *)
(* guard belongs to a startHandTracking call that began after the last     *)
(* stop.  (No detectHands loop is ever live beside another one.)           *)
(***************************************************************************)
C31_NoDetectionAfterStop ==
    \A p \in handPasses : p.since = p.stops

(***************************************************************************)
(* C32.  Hold-to-speak: while the voice button is not held, no recording   *)
(* is active and ARGUS.isListening is false, also when the release came    *)
(* before the microphone was granted.                                      *)
(***************************************************************************)
C32_ReleasedMeansSilent ==
    ~voiceHeld =>
        /\ ~isListening
        /\ \A r \in DOMAIN recorders : recorders[r] # "recording"

(***************************************************************************)
(* C33.  No command given to sendMessage is lost: every call sends its     *)
(* text_command on the open socket or appends it to the pending queue,     *)
(* so the messages sent and the messages queued are together the commands  *)
(* given, whatever the state of the connection.                            *)
(***************************************************************************)
C33_NoCommandLost ==
    /\ Len(sentMessages) + Len(messageQueue.items) = Len(commands)
    /\ \A i \in DOMAIN commands :
         \/ \E k \in DOMAIN sentMessages :
               sentMessages[k] = TextCommand(commands[i])
         \/ \E k \in DOMAIN messageQueue.items :
               messageQueue.items[k] = TextCommand(commands[i])

(***************************************************************************)
(* Vocabulary of the properties of the panels.                             *)
(***************************************************************************)
\* the items of the taskbar that stand for panel p
ItemsOf(p) == {k \in DOMAIN taskbar.children : taskbar.children[k] = p}

(***************************************************************************)
(* C34.  The taskbar holds exactly one item for every minimised panel and  *)
(* none for any other, and once the taskbar has been shown or hidden it is *)
(* shown exactly when it holds an item.                                    *)
(***************************************************************************)
C34_OneItemPerMinimized ==
    /\ \A p \in PanelIds :
         Cardinality(ItemsOf(p)) = (IF panels[p].isMinimized THEN 1 ELSE 0)
    /\ taskbar.display # "" =>
         (taskbar.display = "flex" <=> taskbar.children # <<>>)

(***************************************************************************)
(* C37.  toggleMaximize is a round trip: maximising saves the inline style *)
(* of the panel, the saved text does not change while the panel is         *)
(* maximised, and the second toggleMaximize leaves isMaximized false and   *)
(* the inline style equal to the saved one; a drag state is never made for *)
(* a maximised panel and none exists while its panel is maximised.         *)
(***************************************************************************)
C37_MaximizeRoundTrip ==
    /\ [][\A p \in PanelIds :
            /\ (~panels[p].isMaximized /\ panels'[p].isMaximized)
                  => /\ panels'[p].savedState = CssText(panels[p].style)
                     /\ panels'[p].style = panels[p].style
            /\ (panels[p].isMaximized /\ panels'[p].isMaximized)
                  => panels'[p].savedState = panels[p].savedState
            /\ (panels[p].isMaximized /\ ~panels'[p].isMaximized)
                  => CssText(panels'[p].style) = panels[p].savedState]_vars
    /\ [][(dragState = <<>> /\ dragState' # <<>>)
            => ~panels[dragState'[1].panel].isMaximized]_vars
    /\ [](dragState # <<>> => ~panels[dragState[1].panel].isMaximized)

\* a panel has been maximised, its inline style has changed since, and the
\* second toggleMaximize is the next thing that can put the saved one back
C37_Witness ==
    \E p \in PanelIds :
        /\ panels[p].isMaximized
        /\ CssText(panels[p].style) # panels[p].savedState
        /\ dragState = <<>>

(***************************************************************************)
(* Vocabulary of the properties of the gestures.                           *)
(***************************************************************************)
\* the gestures handleGesture acted on
Acted == {k \in DOMAIN performed : performed[k].acted}

(***************************************************************************)
(* C35.  handleGesture acts on at most one gesture per cooldown window:    *)
(* any two gestures it acted on are at least gestureCooldown apart, and a  *)
(* gesture that arrives inside the window of the last one acted on         *)
(* performs no action and leaves lastGestureTime unchanged.                *)
(***************************************************************************)
C35_OneGesturePerCooldown ==
    /\ [](\A i, j \in Acted :
            i < j => performed[j].at - performed[i].at >= gestureCooldown)
    /\ [](\A k \in Acted : performed[k].at <= lastGestureTime)
    /\ [][(/\ Len(performed') = Len(performed) + 1
            /\ now - lastGestureTime < gestureCooldown)
           => /\ ~performed'[Len(performed')].acted
              /\ UNCHANGED <<lastGestureTime, chatVars, voiceVars,
                             panelVars>>]_vars
    /\ [][(/\ Len(performed') = Len(performed) + 1
            /\ now - lastGestureTime >= gestureCooldown)
           => /\ performed'[Len(performed')].acted
              /\ lastGestureTime' = now]_vars

\* a gesture was acted on, the next came inside its window and was dropped,
\* and a later one, outside the window, was acted on
C35_Witness ==
    \E i, j, k \in DOMAIN performed :
        /\ i < j /\ j < k
        /\ performed[i].acted /\ ~performed[j].acted /\ performed[k].acted
        /\ performed[j].at - performed[i].at < gestureCooldown
        /\ performed[j].at > performed[i].at

(***************************************************************************)
(* C36.  After one or more initialize3DViewer calls exactly one animate3D  *)
(* render loop is active: the first call leaves a loop running, and a      *)
(* later call starts no second loop beside it.                             *)
(***************************************************************************)
C36_ExactlyOneRenderLoop ==
    viewerCalls >= 1 => Len(animationFrames) = 1

====
